---- MODULE Spec2Model ----
(***************************************************************************)
(* A model of the clip resolver (core/clip_finder.py) and of the topic     *)
(* classifier (core/topic_classifier.py) of youtube_clipper.               *)
(*                                                                         *)
(* An oracle response is a sequence of symbols: the digits, ".", "-",      *)
(* " " and "\n" are single characters, every other symbol is one word of   *)
(* the text ("START_TIME:", "NOT_FOUND", "seconds", ...).  The regular     *)
(* expressions of the source are matched symbol by symbol.                 *)
(*                                                                         *)
(* A float is an exact decimal [m, e] standing for m / 10^e, kept          *)
(* normalised (no trailing zero in the fraction), which is what float()    *)
(* yields for the short literals used here.                                *)
(***************************************************************************)
EXTENDS Integers, Sequences, FiniteSets, TLC

VARIABLES
    pc,          \* find_clip_timestamps: position in the call
    response,    \* find_clip_timestamps: what the oracle call produced
    timestamps,  \* find_clip_timestamps: result of _parse_timestamp_response
    ret,         \* find_clip_timestamps: the returned pair
    exc,         \* find_clip_timestamps: the exception raised ("" when none)
    queries,     \* find_clip_timestamps: number of oracle calls issued
    batch_pc,           \* find_multiple_clips: position in the call
    clip_descriptions,  \* find_multiple_clips: the argument
    batch_i,            \* find_multiple_clips: items already handled
    results,            \* find_multiple_clips: the list being built
    batch_log,          \* find_multiple_clips: what the oracle did, per call
    batch_inflight,     \* find_multiple_clips: items whose oracle call is outstanding
    imp,                \* suggest_clip_improvements: the call, as a record
    cls,                \* TopicClassifier: the call, as a record
    top,                \* extract_key_topics: the call, as a record
    pipe,               \* process_video_to_clip: the call, as a record
    prep                \* _prepare_transcription_for_analysis: the call, as a record

fcVars == <<pc, response, timestamps, ret, exc, queries>>

batchVars ==
    <<batch_pc, clip_descriptions, batch_i, results, batch_log, batch_inflight>>

vars == <<fcVars, batchVars, imp, cls, top, pipe, prep>>

----------------------------------------------------------------------------
(* Bounds of the model *)

\* longest oracle response, in segments of ResponseSegments
MaxSegs == 3

\* longest list of descriptions given to find_multiple_clips
MaxBatch == 3

\* longest oracle response to suggest_clip_improvements, in segments
MaxImproveSegs == 3

\* longest transcript segment given to the classifier, in ContentSegments
MaxContentSegs == 3

\* longest oracle response to extract_key_topics, in lines
MaxTopicLines == 3

\* longest keyword list of a category in the configurations a classifier is
\* constructed from
MaxKeywords == 2

\* longest list of positions given to _calculate_clustering_bonus
MaxPositions == 3

\* longest transcription given to _prepare_transcription_for_analysis, in
\* characters
MaxTranscription == 13

\* largest config.MAX_TRANSCRIPTION_LENGTH
MaxConfiguredLength == 10

----------------------------------------------------------------------------
(* Floats and None *)

None == [k |-> "None", m |-> 0, e |-> 0]

RECURSIVE Pow10(_)
Pow10(n) == IF n = 0 THEN 1 ELSE 10 * Pow10(n - 1)

\* the float m / 10^e, normalised
RECURSIVE Float(_, _)
Float(m, e) ==
    IF e > 0 /\ m % 10 = 0 THEN Float(m \div 10, e - 1)
    ELSE [k |-> "float", m |-> m, e |-> e]

IsNone(v) == v.k = "None"

\* a < b on floats
FloatLt(a, b) == a.m * Pow10(b.e) < b.m * Pow10(a.e)

FloatLe(a, b) == a.m * Pow10(b.e) <= b.m * Pow10(a.e)

----------------------------------------------------------------------------
(* Text *)

DigitVal ==
    ("0" :> 0) @@ ("1" :> 1) @@ ("2" :> 2) @@ ("3" :> 3) @@ ("4" :> 4) @@
    ("5" :> 5) @@ ("6" :> 6) @@ ("7" :> 7) @@ ("8" :> 8) @@ ("9" :> 9)

IsDigit(c) == c \in DOMAIN DigitVal

\* \s
IsSpace(c) == c \in {" ", "\n"}

\* str.upper(), and the case folding of re.IGNORECASE
Upper(c) ==
    CASE c = "start_time:" -> "START_TIME:"
      [] c = "end_time:" -> "END_TIME:"
      [] c = "not_found" -> "NOT_FOUND"
      [] c = "keep_current" -> "KEEP_CURRENT"
      [] c = "seconds" -> "SECONDS"
      [] c = "second" -> "SECOND"
      [] c = "s" -> "S"
      [] c = "to" -> "TO"
      [] c = "high" -> "HIGH"
      [] c = "medium" -> "MEDIUM"
      [] c = "low" -> "LOW"
      [] c = "topic" -> "TOPIC"
      [] OTHER -> c

\* \s* from position i: the first position that is not white space
RECURSIVE SkipSpace(_, _)
SkipSpace(t, i) ==
    IF i <= Len(t) /\ IsSpace(t[i]) THEN SkipSpace(t, i + 1) ELSE i

\* [0-9]* from position i: the first position after the digits
RECURSIVE DigitRunEnd(_, _)
DigitRunEnd(t, i) ==
    IF i <= Len(t) /\ IsDigit(t[i]) THEN DigitRunEnd(t, i + 1) ELSE i

NumberEndNoFraction(t, i) ==
    IF i > Len(t) \/ ~IsDigit(t[i]) THEN 0 ELSE DigitRunEnd(t, i)

\* [0-9]+\.?[0-9]* at position i, greedy: the first position after the match,
\* 0 when there is no match
NumberEnd(t, i) ==
    LET j == DigitRunEnd(t, i)
    IN  IF i > Len(t) \/ ~IsDigit(t[i]) THEN 0
        ELSE IF j <= Len(t) /\ t[j] = "." THEN DigitRunEnd(t, j + 1)
        ELSE j

\* a match object: where the match starts and its groups
Match(pos, group1, group2) ==
    [found |-> TRUE, pos |-> pos, group1 |-> group1, group2 |-> group2]

\* re.search found nothing
NoMatch == [found |-> FALSE, pos |-> 0, group1 |-> <<>>, group2 |-> <<>>]

\* re.search: the leftmost of the attempts ms that matched, NoMatch when none did
Leftmost(ms) ==
    IF \A m \in ms : ~m.found THEN NoMatch
    ELSE CHOOSE h \in ms : h.found /\ \A o \in ms : o.found => h.pos <= o.pos

\* ([0-9]+\.?[0-9]*|SENTINEL) at position k: first position after it, 0 if none
ValueEnd(t, k, sentinel) ==
    IF NumberEnd(t, k) # 0 THEN NumberEnd(t, k)
    ELSE IF k <= Len(t) /\ Upper(t[k]) = sentinel THEN k + 1
    ELSE 0

\* r'FIELD\s*([0-9]+\.?[0-9]*|SENTINEL)' anchored at position i, ignoring case
FieldAt(t, i, field, sentinel) ==
    LET k == SkipSpace(t, i + 1)
    IN  IF Upper(t[i]) = field /\ ValueEnd(t, k, sentinel) # 0
        THEN Match(i, SubSeq(t, k, ValueEnd(t, k, sentinel) - 1), <<>>)
        ELSE NoMatch

\* re.search(r'FIELD\s*([0-9]+\.?[0-9]*|SENTINEL)', t, re.IGNORECASE)
FieldSearch(t, field, sentinel) ==
    Leftmost({FieldAt(t, i, field, sentinel) : i \in 1..Len(t)})

\* \s*(?:seconds?|s) from position n, ignoring case: first position after it,
\* 0 if none or if n is 0
UnitEnd(t, n) ==
    IF n # 0 /\ SkipSpace(t, n) <= Len(t)
            /\ Upper(t[SkipSpace(t, n)]) \in {"SECONDS", "SECOND", "S"}
    THEN SkipSpace(t, n) + 1
    ELSE 0

\* (?:to|-)? at position i: it is taken when present
SepEnd(t, i) ==
    IF i <= Len(t) /\ (Upper(t[i]) = "TO" \/ t[i] = "-") THEN i + 1 ELSE i

\* the fallback pattern anchored at position i:
\* (\d+\.?\d*)\s*(?:seconds?|s)\s*(?:to|-)?\s*(\d+\.?\d*)\s*(?:seconds?|s)
\* the first number is [i, n1), the second one [k2, n2)
LooseAt(t, i) ==
    LET n1 == NumberEnd(t, i)
        u1 == UnitEnd(t, n1)
        k2 == IF u1 = 0 THEN 0 ELSE SkipSpace(t, SepEnd(t, SkipSpace(t, u1)))
        n2 == IF k2 = 0 THEN 0 ELSE NumberEnd(t, k2)
    IN  IF UnitEnd(t, n2) = 0 THEN NoMatch
        ELSE Match(i, SubSeq(t, i, n1 - 1), SubSeq(t, k2, n2 - 1))

\* re.search(timestamp_patterns, t, re.IGNORECASE)
LooseSearch(t) == Leftmost({LooseAt(t, i) : i \in 1..Len(t)})

RECURSIVE DigitsToNat(_)
DigitsToNat(ds) ==
    IF ds = <<>> THEN 0
    ELSE 10 * DigitsToNat(SubSeq(ds, 1, Len(ds) - 1)) + DigitVal[ds[Len(ds)]]

ValueError == [k |-> "ValueError", m |-> 0, e |-> 0]

\* the float of an unsigned literal s whose leading digits end before j
UnsignedToFloatAt(s, j) ==
    IF j > Len(s) THEN (IF s = <<>> THEN ValueError ELSE Float(DigitsToNat(s), 0))
    ELSE IF s[j] # "." \/ DigitRunEnd(s, j + 1) <= Len(s) \/ Len(s) = 1
         THEN ValueError
    ELSE Float(DigitsToNat(SubSeq(s, 1, j - 1) \o SubSeq(s, j + 1, Len(s))),
               Len(s) - j)

\* float(s) for a string s: an optional "-", then digits with an optional "."
\* among them and at least one digit; anything else raises ValueError
ToFloat(s) ==
    IF s # <<>> /\ s[1] = "-"
    THEN [UnsignedToFloatAt(Tail(s), DigitRunEnd(Tail(s), 1)) EXCEPT !.m = 0 - @]
    ELSE UnsignedToFloatAt(s, DigitRunEnd(s, 1))

----------------------------------------------------------------------------
(* ClipFinder._parse_timestamp_response *)

NoneContent == [isNone |-> TRUE, text |-> <<>>]

Content(t) == [isNone |-> FALSE, text |-> t]

\* an exception that leaves a function
Escaped == <<[k |-> "Exception", m |-> 0, e |-> 0], [k |-> "Exception", m |-> 0, e |-> 0]>>

StrictValidatedUnordered(start_time, end_time) ==
    IF start_time.k = "ValueError" \/ end_time.k = "ValueError"
    THEN <<None, None>>
    ELSE <<start_time, end_time>>

\* the strict branch after float(): end must be after start
StrictValidated(start_time, end_time) ==
    IF start_time.k = "ValueError" \/ end_time.k = "ValueError"
    THEN <<None, None>>
    ELSE IF FloatLe(end_time, start_time) THEN <<None, None>>
    ELSE <<start_time, end_time>>

\* the strict branch, entered when both fields matched
StrictTimestamps(start_str, end_str) ==
    IF Upper(start_str[1]) = "NOT_FOUND" \/ Upper(end_str[1]) = "NOT_FOUND"
    THEN <<None, None>>
    ELSE StrictValidated(ToFloat(start_str), ToFloat(end_str))

\* the fallback branch after float(): only end > start is used
FallbackValidated(start_time, end_time) ==
    IF start_time.k = "ValueError" \/ end_time.k = "ValueError"
    THEN <<None, None>>
    ELSE IF FloatLt(start_time, end_time) THEN <<start_time, end_time>>
    ELSE <<None, None>>

\* the fallback pattern left out
FallbackIgnored(fallback_match) == <<None, None>>

\* the fallback branch
FallbackTimestamps(fallback_match) ==
    IF fallback_match.found
    THEN FallbackValidated(ToFloat(fallback_match.group1),
                           ToFloat(fallback_match.group2))
    ELSE <<None, None>>

\* the fallback tried again after strict fields that gave no pair
StrictThenFallback(strict, t) ==
    IF strict = <<None, None>> THEN FallbackTimestamps(LooseSearch(t)) ELSE strict

ParseMatchedFallThrough(t, start_match, end_match) ==
    IF start_match.found /\ end_match.found
    THEN StrictThenFallback(StrictTimestamps(start_match.group1, end_match.group1), t)
    ELSE FallbackTimestamps(LooseSearch(t))

\* the body of _parse_timestamp_response after the two strict searches
ParseMatched(t, start_match, end_match) ==
    IF start_match.found /\ end_match.found
    THEN StrictTimestamps(start_match.group1, end_match.group1)
    ELSE FallbackTimestamps(LooseSearch(t))

ParseTimestampResponseUncaught(content) ==
    IF content.isNone THEN Escaped
    ELSE ParseMatched(content.text,
                      FieldSearch(content.text, "START_TIME:", "NOT_FOUND"),
                      FieldSearch(content.text, "END_TIME:", "NOT_FOUND"))

\* a response that is no string makes re.search raise TypeError, which the
\* outer handler turns into (None, None)
ParseTimestampResponse(content) ==
    IF content.isNone THEN <<None, None>>
    ELSE ParseMatched(content.text,
                      FieldSearch(content.text, "START_TIME:", "NOT_FOUND"),
                      FieldSearch(content.text, "END_TIME:", "NOT_FOUND"))

----------------------------------------------------------------------------
(* The oracle's responses *)

\* the pieces an oracle response is made of: the two fields, each followed by
\* a number, the sentinel or something else, loose pairs, and other text
ResponseSegments ==
    {<<field, " ">> \o v :
        field \in {"START_TIME:", "END_TIME:"},
        v \in {<<"5">>, <<"5", "0">>, <<"4", ".", "5">>,
               <<"NOT_FOUND">>, <<"not_found">>, <<"x">>}}
    \cup {<<"5", " ", "seconds", " ", "to", " ", "5", "0", " ", "seconds">>,
          <<"4", ".", "5", "s", "-", "5", "s">>,
          <<"5", "0", " ", "s", " ", "5", " ", "s">>,
          <<"\n", "x", " ">>}

\* the texts made of at most n of the segments
RECURSIVE TextsOf(_, _)
TextsOf(segments, n) ==
    IF n = 0 THEN {<<>>}
    ELSE LET shorter == TextsOf(segments, n - 1)
         IN  shorter \cup {t \o g : t \in shorter, g \in segments}

\* the numbers the oracle may echo
EchoValues == {Float(0 - 5, 0), Float(0, 0), Float(45, 1), Float(5, 0), Float(50, 0)}

\* an echoed number written out as Python writes a float
FormatFloat(v) ==
    CASE v = Float(0 - 5, 0) -> <<"-", "5", ".", "0">>
      [] v = Float(0, 0) -> <<"0", ".", "0">>
      [] v = Float(45, 1) -> <<"4", ".", "5">>
      [] v = Float(5, 0) -> <<"5", ".", "0">>
      [] v = Float(50, 0) -> <<"5", "0", ".", "0">>

\* the response 'START_TIME: start END_TIME: end'
Echo(start, end) ==
    <<"START_TIME:", " ">> \o FormatFloat(start)
    \o <<" ", "END_TIME:", " ">> \o FormatFloat(end)

\* 'the clip runs from 12.5 seconds to 45.0 seconds'
ExampleResponse ==
    <<"the", " ", "clip", " ", "runs", " ", "from", " ", "1", "2", ".", "5", " ",
      "seconds", " ", "to", " ", "4", "5", ".", "0", " ", "seconds">>

\* the content of the oracle's message: a text, an echo, or None
OracleContents ==
    {Content(t) : t \in TextsOf(ResponseSegments, MaxSegs) \cup {ExampleResponse}}
    \cup {Content(Echo(a, b)) : a \in EchoValues, b \in EchoValues}
    \cup {NoneContent}

\* how the oracle call can fail
OracleErrors == {"APIError", "ConnectionError"}

NoResponse == [ok |-> FALSE, error |-> "", content |-> NoneContent]

----------------------------------------------------------------------------
(* ClipFinder.find_clip_timestamps *)

\* find_clip_timestamps is called; no other call is under way
InitFindClip ==
    /\ pc = "start"
    /\ response = NoResponse
    /\ timestamps = <<None, None>>
    /\ ret = <<None, None>>
    /\ exc = ""
    /\ queries = 0
    /\ batch_pc = "idle"
    /\ clip_descriptions = <<>>
    /\ batch_i = 0
    /\ results = <<>>
    /\ batch_log = <<>>
    /\ batch_inflight = {}
    /\ imp = [pc |-> "idle"]
    /\ cls = [pc |-> "idle"]
    /\ top = [pc |-> "idle"]
    /\ pipe = [pc |-> "idle"]
    /\ prep = [pc |-> "idle"]

\* _prepare_transcription_for_analysis and _create_clip_finding_prompt
Prepare ==
    /\ pc = "start"
    /\ pc' = "prepared"
    /\ UNCHANGED <<response, timestamps, ret, exc, queries>>
    /\ UNCHANGED <<batchVars, imp, cls, top, pipe, prep>>

\* client.chat.completions.create returns a message
QueryOk ==
    /\ pc = "prepared"
    /\ \E c \in OracleContents :
          response' = [ok |-> TRUE, error |-> "", content |-> c]
    /\ queries' = queries + 1
    /\ pc' = "queried"
    /\ UNCHANGED <<timestamps, ret, exc>>
    /\ UNCHANGED <<batchVars, imp, cls, top, pipe, prep>>

\* client.chat.completions.create raises: both handlers raise ClipExtractionError
QueryFails ==
    /\ pc = "prepared"
    /\ \E err \in OracleErrors :
          response' = [ok |-> FALSE, error |-> err, content |-> NoneContent]
    /\ queries' = queries + 1
    /\ exc' = "ClipExtractionError"
    /\ pc' = "raised"
    /\ UNCHANGED <<timestamps, ret>>
    /\ UNCHANGED <<batchVars, imp, cls, top, pipe, prep>>

\* _parse_timestamp_response for every content of the oracle's message
parse_timestamp_response ==
    [content \in OracleContents |-> ParseTimestampResponse(content)]

\* the oracle is queried again when the response gave no timestamps
ParseRetry ==
    /\ pc = "queried"
    /\ \E r \in {parse_timestamp_response[response.content]} :
          IF r = <<None, None>> /\ queries < 2
          THEN /\ pc' = "prepared"
               /\ UNCHANGED timestamps
          ELSE /\ timestamps' = r
               /\ pc' = "parsed"
    /\ UNCHANGED <<response, ret, exc, queries>>
    /\ UNCHANGED <<batchVars, imp, cls, top, pipe, prep>>

\* _parse_timestamp_response returns a pair; an exception escaping it would be
\* caught by the handler of find_clip_timestamps and raised as ClipExtractionError
Parse ==
    /\ pc = "queried"
    /\ \E r \in {parse_timestamp_response[response.content]} :
          IF r = Escaped
          THEN /\ exc' = "ClipExtractionError"
               /\ pc' = "raised"
               /\ UNCHANGED timestamps
          ELSE /\ timestamps' = r
               /\ pc' = "parsed"
               /\ UNCHANGED exc
    /\ UNCHANGED <<response, ret, queries>>
    /\ UNCHANGED <<batchVars, imp, cls, top, pipe, prep>>

\* the pair is returned when both are set, (None, None) otherwise; a duration
\* outside the recommended range is only logged
Return ==
    /\ pc = "parsed"
    /\ ret' = IF ~IsNone(timestamps[1]) /\ ~IsNone(timestamps[2])
              THEN <<timestamps[1], timestamps[2]>>
              ELSE <<None, None>>
    /\ pc' = "returned"
    /\ UNCHANGED <<response, timestamps, exc, queries>>
    /\ UNCHANGED <<batchVars, imp, cls, top, pipe, prep>>

NextFindClip == Prepare \/ QueryOk \/ QueryFails \/ Parse \/ Return

----------------------------------------------------------------------------
(* ClipFinder._prepare_transcription_for_analysis *)

\* transcription[:part_size]
SliceTo(transcription, part_size) ==
    SubSeq(transcription, 1, IF part_size < Len(transcription) THEN part_size
                             ELSE Len(transcription))

\* transcription[-part_size:]: the whole transcription when part_size is 0
SliceFromEnd(transcription, part_size) ==
    IF part_size = 0 \/ part_size > Len(transcription) THEN transcription
    ELSE SubSeq(transcription, Len(transcription) - part_size + 1, Len(transcription))

\* transcription[middle_start:middle_start + part_size], middle_start >= 0
Slice(transcription, middle_start, stop) ==
    SubSeq(transcription, middle_start + 1,
           IF stop < Len(transcription) THEN stop ELSE Len(transcription))

MiddleMarker == <<"\n", "\n", "[... MIDDLE SECTION ...]", "\n">>

EndMarker == <<"\n", "\n", "[... END SECTION ...]", "\n">>

TruncatedOffCentre(transcription, max_length) ==
    IF Len(transcription) > max_length
    THEN LET part_size == max_length \div 3
             middle_start == Len(transcription) \div 2 - part_size
         IN  SliceTo(transcription, part_size) \o MiddleMarker
             \o Slice(transcription, middle_start, middle_start + part_size)
             \o EndMarker \o SliceFromEnd(transcription, part_size)
    ELSE transcription

\* the transcription after the cut of lines 122-132
Truncated(transcription, max_length) ==
    IF Len(transcription) > max_length
    THEN LET part_size == max_length \div 3
             middle_start == Len(transcription) \div 2 - part_size \div 2
         IN  SliceTo(transcription, part_size) \o MiddleMarker
             \o Slice(transcription, middle_start, middle_start + part_size)
             \o EndMarker \o SliceFromEnd(transcription, part_size)
    ELSE transcription

\* transcription.split('\n')
RECURSIVE SplitLines(_)
SplitLines(t) ==
    IF \A i \in 1..Len(t) : t[i] # "\n" THEN <<t>>
    ELSE LET i == CHOOSE k \in 1..Len(t) :
                     t[k] = "\n" /\ \A j \in 1..k - 1 : t[j] # "\n"
         IN  <<SubSeq(t, 1, i - 1)>> \o SplitLines(SubSeq(t, i + 1, Len(t)))

\* str.strip()
RECURSIVE Strip(_)
Strip(s) ==
    IF s = <<>> THEN s
    ELSE IF IsSpace(s[1]) THEN Strip(Tail(s))
    ELSE IF IsSpace(s[Len(s)]) THEN Strip(SubSeq(s, 1, Len(s) - 1))
    ELSE s

\* the decimal digits of a natural number
RECURSIVE DigitsOf(_)
DigitsOf(n) ==
    LET d == CHOOSE c \in DOMAIN DigitVal : DigitVal[c] = n % 10
    IN  IF n < 10 THEN <<d>> ELSE DigitsOf(n \div 10) \o <<d>>

\* f"{(i / n) * 1800:.0f}": the quotient rounded to the nearest integer, ties
\* to the even one
EstimatedTime(i, n) ==
    LET q == (i * 1800) \div n
        r == (i * 1800) % n
    IN  IF 2 * r > n \/ (2 * r = n /\ q % 2 = 1) THEN q + 1 ELSE q

\* the numbered lines from line i (counted from 0) on, joined by newlines
RECURSIVE NumberedLines(_, _)
NumberedLines(lines, i) ==
    IF i >= Len(lines) THEN <<>>
    ELSE (IF i > 0 THEN <<"\n">> ELSE <<>>)
         \o (IF Strip(lines[i + 1]) # <<>>
             THEN <<"[~">> \o DigitsOf(EstimatedTime(i, Len(lines))) \o <<"s]", " ">>
                  \o Strip(lines[i + 1])
             ELSE <<>>)
         \o NumberedLines(lines, i + 1)

PrepareTranscriptionForAnalysis(transcription, max_length) ==
    NumberedLines(SplitLines(Truncated(transcription, max_length)), 0)

\* the transcriptions: the first letters of the alphabet, and a text with
\* blanks and line breaks
Letters ==
    <<"a", "b", "c", "d", "e", "f", "g", "h", "i", "j", "k", "l", "m", "n", "o", "p">>

Spaced ==
    <<"a", " ", "b", "\n", " ", "\n", "c", "d", " ", "\n", "e", "f", " ", "g", "\n", "h">>

Transcriptions == {SubSeq(t, 1, n) : t \in {Letters, Spaced}, n \in 0..MaxTranscription}

\* _prepare_transcription_for_analysis is called with a transcription, under
\* a configured maximal length; no other call is under way
InitPrepare ==
    /\ \E transcription \in Transcriptions, max_length \in 0..MaxConfiguredLength :
          prep = [pc |-> "start", transcription |-> transcription,
                  MAX_TRANSCRIPTION_LENGTH |-> max_length]
    /\ top = [pc |-> "idle"]
    /\ pipe = [pc |-> "idle"]
    /\ imp = [pc |-> "idle"]
    /\ cls = [pc |-> "idle"]
    /\ pc = "idle"
    /\ response = NoResponse
    /\ timestamps = <<None, None>>
    /\ ret = <<None, None>>
    /\ exc = ""
    /\ queries = 0
    /\ batch_pc = "idle"
    /\ clip_descriptions = <<>>
    /\ batch_i = 0
    /\ results = <<>>
    /\ batch_log = <<>>
    /\ batch_inflight = {}

\* the prepared transcription is returned; the text after the cut is kept
PrepareReturn ==
    /\ prep.pc = "start"
    /\ prep' = [prep EXCEPT !.pc = "returned"] @@
               [truncated |-> Truncated(prep.transcription, prep.MAX_TRANSCRIPTION_LENGTH),
                result |-> PrepareTranscriptionForAnalysis(prep.transcription,
                                                          prep.MAX_TRANSCRIPTION_LENGTH)]
    /\ UNCHANGED <<fcVars, batchVars, imp, cls, top, pipe>>

NextPrepare == PrepareReturn

----------------------------------------------------------------------------
(* ClipFinder.find_multiple_clips *)

\* what find_clip_timestamps returns for the parsed pair r
ReturnedPair(r) ==
    IF r = Escaped THEN Escaped
    ELSE IF ~IsNone(r[1]) /\ ~IsNone(r[2]) THEN r
    ELSE <<None, None>>

\* find_clip_timestamps as one step: the pair it returns for what the oracle
\* did, or Escaped when it raises ClipExtractionError
FindClipTimestamps(resp) ==
    IF ~resp.ok THEN Escaped ELSE ReturnedPair(ParseTimestampResponse(resp.content))

\* the truth value of a float or None in a condition
Truthy(v) == ~IsNone(v) /\ v.m # 0

\* a - b on floats
FloatSub(a, b) ==
    LET e == IF a.e > b.e THEN a.e ELSE b.e
    IN  Float(a.m * Pow10(e - a.e) - b.m * Pow10(e - b.e), e)

\* the dictionary of an item whose find_clip_timestamps returned
ItemResult(description, start_time, end_time) ==
    [description |-> description,
     start_time |-> start_time,
     end_time |-> end_time,
     duration |-> IF Truthy(start_time) /\ Truthy(end_time)
                  THEN FloatSub(end_time, start_time)
                  ELSE None,
     success |-> ~IsNone(start_time) /\ ~IsNone(end_time)]

ItemFailureUnmarked(description, error) ==
    [description |-> description,
     start_time |-> None,
     end_time |-> None,
     duration |-> None,
     success |-> FALSE]

\* the dictionary of an item whose find_clip_timestamps raised
ItemFailure(description, error) ==
    [description |-> description,
     start_time |-> None,
     end_time |-> None,
     duration |-> None,
     success |-> FALSE,
     error |-> error]

\* what the oracle answers to the calls of a batch
BatchContents ==
    {Content(<<"START_TIME:", " ", "5", "\n", "END_TIME:", " ", "5", "0">>),
     Content(<<"START_TIME:", " ", "0", "\n", "END_TIME:", " ", "4", ".", "5">>),
     Content(<<"START_TIME:", " ", "NOT_FOUND", "\n", "END_TIME:", " ", "NOT_FOUND">>),
     Content(<<"x">>)}

\* find_multiple_clips is called with a list of descriptions
InitBatch ==
    /\ batch_pc = "loop"
    /\ clip_descriptions \in
          TextsOf({<<"inflation outlook">>, <<"rate decision">>}, MaxBatch)
    /\ batch_i = 0
    /\ results = <<>>
    /\ batch_log = <<>>
    /\ batch_inflight = {}
    /\ pc = "idle"
    /\ response = NoResponse
    /\ timestamps = <<None, None>>
    /\ ret = <<None, None>>
    /\ exc = ""
    /\ queries = 0
    /\ imp = [pc |-> "idle"]
    /\ cls = [pc |-> "idle"]
    /\ top = [pc |-> "idle"]
    /\ pipe = [pc |-> "idle"]
    /\ prep = [pc |-> "idle"]

\* a call issued while the one before it is still outstanding
BatchCallAhead ==
    /\ batch_pc \in {"loop", "calling"}
    /\ batch_i + Cardinality(batch_inflight) < Len(clip_descriptions)
    /\ batch_inflight' = batch_inflight \cup {batch_i + Cardinality(batch_inflight) + 1}
    /\ batch_pc' = "calling"
    /\ UNCHANGED <<clip_descriptions, batch_i, results, batch_log>>
    /\ UNCHANGED <<fcVars, imp, cls, top, pipe, prep>>

\* the loop takes the next description and find_clip_timestamps calls the oracle
BatchCall ==
    /\ batch_pc = "loop"
    /\ batch_i < Len(clip_descriptions)
    /\ batch_inflight' = batch_inflight \cup {batch_i + 1}
    /\ batch_pc' = "calling"
    /\ UNCHANGED <<clip_descriptions, batch_i, results, batch_log>>
    /\ UNCHANGED <<fcVars, imp, cls, top, pipe, prep>>

\* the dictionary appended for an item, r being what find_clip_timestamps did
ItemOutcome(description, r) ==
    IF r = Escaped
    THEN ItemFailure(description, "ClipExtractionError")
    ELSE ItemResult(description, r[1], r[2])

\* the oracle answers, find_clip_timestamps returns and the item is appended
BatchItemReturns ==
    /\ batch_pc = "calling"
    /\ \E c \in BatchContents :
          /\ results' = Append(results,
                 ItemOutcome(clip_descriptions[batch_i + 1],
                     FindClipTimestamps([ok |-> TRUE, error |-> "", content |-> c])))
          /\ batch_log' = Append(batch_log, [ok |-> TRUE, error |-> "", content |-> c])
    /\ batch_inflight' = batch_inflight \ {batch_i + 1}
    /\ batch_i' = batch_i + 1
    /\ batch_pc' = "loop"
    /\ UNCHANGED clip_descriptions
    /\ UNCHANGED <<fcVars, imp, cls, top, pipe, prep>>

\* the oracle call fails, find_clip_timestamps raises ClipExtractionError and
\* the handler of the loop appends the failure
BatchItemRaises ==
    /\ batch_pc = "calling"
    /\ \E err \in OracleErrors :
          /\ results' = Append(results,
                 ItemOutcome(clip_descriptions[batch_i + 1],
                     FindClipTimestamps([ok |-> FALSE, error |-> err,
                                         content |-> NoneContent])))
          /\ batch_log' = Append(batch_log,
                 [ok |-> FALSE, error |-> err, content |-> NoneContent])
    /\ batch_inflight' = batch_inflight \ {batch_i + 1}
    /\ batch_i' = batch_i + 1
    /\ batch_pc' = "loop"
    /\ UNCHANGED clip_descriptions
    /\ UNCHANGED <<fcVars, imp, cls, top, pipe, prep>>

\* the loop is over: return results
BatchReturn ==
    /\ batch_pc = "loop"
    /\ batch_i = Len(clip_descriptions)
    /\ batch_pc' = "returned"
    /\ UNCHANGED <<clip_descriptions, batch_i, results, batch_log, batch_inflight>>
    /\ UNCHANGED <<fcVars, imp, cls, top, pipe, prep>>

NextBatch == BatchCall \/ BatchItemReturns \/ BatchItemRaises \/ BatchReturn

----------------------------------------------------------------------------
(* ClipFinder._parse_improvement_response *)

\* the first position from j on that holds a newline, or the end of the text
RECURSIVE LineEnd(_, _)
LineEnd(t, j) ==
    IF j <= Len(t) /\ t[j] # "\n" THEN LineEnd(t, j + 1) ELSE j

\* r'IMPROVEMENT_REASON:\s*(.+?)(?=\n|$)' anchored at position i: after the
\* white space, which ends before k, the group takes at least one character
\* and then up to the end of the line; when only white space follows the
\* field, \s* gives its last character back to the group
ReasonAt(t, i) ==
    LET k == SkipSpace(t, i + 1)
    IN  IF Upper(t[i]) # "IMPROVEMENT_REASON:" THEN NoMatch
        ELSE IF k <= Len(t) THEN Match(i, SubSeq(t, k, LineEnd(t, k + 1) - 1), <<>>)
        ELSE IF k - 1 > i THEN Match(i, <<t[Len(t)]>>, <<>>)
        ELSE NoMatch

\* re.search(reason_pattern, t, re.IGNORECASE | re.DOTALL)
ReasonSearch(t) == Leftmost({ReasonAt(t, i) : i \in 1..Len(t)})

\* r'CONFIDENCE:\s*(HIGH|MEDIUM|LOW)' anchored at position i, ignoring case
ConfidenceAt(t, i) ==
    LET k == SkipSpace(t, i + 1)
    IN  IF /\ Upper(t[i]) = "CONFIDENCE:"
           /\ k <= Len(t)
           /\ Upper(t[k]) \in {"HIGH", "MEDIUM", "LOW"}
        THEN Match(i, <<t[k]>>, <<>>)
        ELSE NoMatch

\* re.search(confidence_pattern, t, re.IGNORECASE)
ConfidenceSearch(t) == Leftmost({ConfidenceAt(t, i) : i \in 1..Len(t)})

\* one bound: the number of the field, or the original for KEEP_CURRENT, for
\* a field that is absent and for a value float() rejects
SuggestedBound(m, original) ==
    IF ~m.found THEN original
    ELSE IF Upper(m.group1[1]) = "KEEP_CURRENT" THEN original
    ELSE IF ToFloat(m.group1).k = "ValueError" THEN original
    ELSE ToFloat(m.group1)

ImprovementReason(reason_match) ==
    IF reason_match.found THEN Strip(reason_match.group1)
    ELSE <<"No specific improvements suggested">>

Confidence(confidence_match) ==
    IF confidence_match.found THEN Upper(confidence_match.group1[1]) ELSE "MEDIUM"

\* a bound that is kept makes the other bound be kept too
ImprovementDictAllOrNothing(suggested, improvement_reason, confidence, original) ==
    IF suggested[1] = original[1] \/ suggested[2] = original[2]
    THEN [suggested_start |-> original[1],
          suggested_end |-> original[2],
          improvement_reason |-> improvement_reason,
          confidence |-> confidence,
          changed |-> FALSE]
    ELSE [suggested_start |-> suggested[1],
          suggested_end |-> suggested[2],
          improvement_reason |-> improvement_reason,
          confidence |-> confidence,
          changed |-> TRUE]

\* the dictionary returned when the response was parsed
ImprovementDict(suggested, improvement_reason, confidence, original) ==
    [suggested_start |-> suggested[1],
     suggested_end |-> suggested[2],
     improvement_reason |-> improvement_reason,
     confidence |-> confidence,
     changed |-> suggested[1] # original[1] \/ suggested[2] # original[2]]

\* the dictionary returned by the handler of _parse_improvement_response
ParseFailureDict(original_start, original_end) ==
    [suggested_start |-> original_start,
     suggested_end |-> original_end,
     improvement_reason |-> <<"Could not parse suggestions">>,
     confidence |-> "LOW",
     changed |-> FALSE]

\* _parse_improvement_response; a response that is no string makes re.search
\* raise TypeError, which the handler turns into the failure dictionary
ParseImprovementResponse(content, original_start, original_end) ==
    IF content.isNone THEN ParseFailureDict(original_start, original_end)
    ELSE ImprovementDict(
            <<SuggestedBound(FieldSearch(content.text, "SUGGESTED_START:", "KEEP_CURRENT"),
                             original_start),
              SuggestedBound(FieldSearch(content.text, "SUGGESTED_END:", "KEEP_CURRENT"),
                             original_end)>>,
            ImprovementReason(ReasonSearch(content.text)),
            Confidence(ConfidenceSearch(content.text)),
            <<original_start, original_end>>)

----------------------------------------------------------------------------
(* ClipFinder.suggest_clip_improvements *)

\* the dictionary returned by the handler of suggest_clip_improvements
OracleFailureDict(start_time, end_time) ==
    [suggested_start |-> start_time,
     suggested_end |-> end_time,
     improvement_reason |-> <<"Could not analyze improvements">>,
     confidence |-> "LOW"]

ImproveSegments ==
    {<<"SUGGESTED_START:", " ">> \o v :
        v \in {<<"5">>, <<"4", ".", "5">>, <<"keep_current">>, <<"x">>}}
    \cup {<<"\n", "SUGGESTED_END:", " ">> \o v :
        v \in {<<"5", "0">>, <<"4", ".", "5">>, <<"KEEP_CURRENT">>}}
    \cup {<<"\n", "CONFIDENCE:", " ", "HIGH">>, <<"CONFIDENCE:", "low", "\n">>,
          <<"IMPROVEMENT_REASON:", " ", "x", " ", "x", " ", "\n">>,
          <<"\n", "IMPROVEMENT_REASON:", " ">>}

ImproveContents ==
    {Content(t) : t \in TextsOf(ImproveSegments, MaxImproveSegs)} \cup {NoneContent}

\* suggest_clip_improvements is called; no other call is under way
InitImprove ==
    /\ \E o \in {<<Float(5, 0), Float(50, 0)>>, <<Float(0, 0), Float(45, 1)>>,
                 <<Float(45, 1), Float(5, 0)>>} :
          imp = [pc |-> "start", start_time |-> o[1], end_time |-> o[2]]
    /\ cls = [pc |-> "idle"]
    /\ top = [pc |-> "idle"]
    /\ pipe = [pc |-> "idle"]
    /\ prep = [pc |-> "idle"]
    /\ pc = "idle"
    /\ response = NoResponse
    /\ timestamps = <<None, None>>
    /\ ret = <<None, None>>
    /\ exc = ""
    /\ queries = 0
    /\ batch_pc = "idle"
    /\ clip_descriptions = <<>>
    /\ batch_i = 0
    /\ results = <<>>
    /\ batch_log = <<>>
    /\ batch_inflight = {}

\* the oracle call returns a message
ImproveQueryOk ==
    /\ imp.pc = "start"
    /\ \E c \in ImproveContents :
          imp' = [pc |-> "queried", start_time |-> imp.start_time,
                  end_time |-> imp.end_time,
                  response |-> [ok |-> TRUE, error |-> "", content |-> c]]
    /\ UNCHANGED <<fcVars, batchVars, cls, top, pipe, prep>>

\* the oracle call raises: the handler returns its dictionary
ImproveQueryFails ==
    /\ imp.pc = "start"
    /\ \E err \in OracleErrors :
          imp' = [pc |-> "returned", start_time |-> imp.start_time,
                  end_time |-> imp.end_time,
                  response |-> [ok |-> FALSE, error |-> err, content |-> NoneContent],
                  result |-> OracleFailureDict(imp.start_time, imp.end_time)]
    /\ UNCHANGED <<fcVars, batchVars, cls, top, pipe, prep>>

\* return self._parse_improvement_response(...)
ImproveParse ==
    /\ imp.pc = "queried"
    /\ imp' = [pc |-> "returned", start_time |-> imp.start_time,
               end_time |-> imp.end_time,
               response |-> imp.response,
               result |-> ParseImprovementResponse(imp.response.content,
                                                   imp.start_time, imp.end_time)]
    /\ UNCHANGED <<fcVars, batchVars, cls, top, pipe, prep>>

NextImprove == ImproveQueryOk \/ ImproveQueryFails \/ ImproveParse

----------------------------------------------------------------------------
(* ClipFinder._parse_topics_response and extract_key_topics *)

\* a match of topic_pattern: it ends before position end
TopicMatch(pos, end, group1, group2) ==
    [found |-> TRUE, pos |-> pos, end |-> end, group1 |-> group1, group2 |-> group2]

\* r'TOPIC\s+\d+:\s*([0-9]+\.?[0-9]*)\s*s\s*-\s*(.+?)(?=\n|$)' anchored at
\* position i, ignoring case, "." matching the newline too.  The white space
\* after "-" ends before w; the description takes at least one character from
\* w on, and then up to the end of that line; when only white space follows
\* "-", \s* gives its last character back to the description.
TopicAt(t, i) ==
    LET k == SkipSpace(t, i + 1)
        d == DigitRunEnd(t, k)
        n0 == SkipSpace(t, d + 1)
        n1 == NumberEnd(t, n0)
        u == SkipSpace(t, n1)
        v == SkipSpace(t, u + 1)
        w == SkipSpace(t, v + 1)
    IN  IF \/ Upper(t[i]) # "TOPIC"
           \/ k = i + 1 \/ d = k
           \/ d > Len(t) \/ t[d] # ":"
           \/ n1 = 0
           \/ u > Len(t) \/ Upper(t[u]) # "S"
           \/ v > Len(t) \/ t[v] # "-"
        THEN NoMatch
        ELSE IF w <= Len(t)
        THEN TopicMatch(i, LineEnd(t, w + 1), SubSeq(t, n0, n1 - 1),
                        SubSeq(t, w, LineEnd(t, w + 1) - 1))
        ELSE IF w - 1 > v
        THEN TopicMatch(i, w, SubSeq(t, n0, n1 - 1), <<t[Len(t)]>>)
        ELSE NoMatch

\* re.findall(topic_pattern, t, ...) from position i on: the matches from left
\* to right, each search starting where the last match ended
RECURSIVE TopicFindAll(_, _)
TopicFindNext(t, i, m) ==
    IF m.found THEN <<m>> \o TopicFindAll(t, m.end) ELSE TopicFindAll(t, i + 1)

TopicFindAll(t, i) ==
    IF i > Len(t) THEN <<>> ELSE TopicFindNext(t, i, TopicAt(t, i))

\* one turn of the loop over the matches: the topic is appended, or the
\* match is passed over when float() raises ValueError
TopicAppended(topics, timestamp, description) ==
    IF timestamp.k = "ValueError" THEN topics
    ELSE Append(topics, [timestamp |-> timestamp,
                         description |-> Strip(description),
                         topic_id |-> Len(topics) + 1])

\* for match in matches
RECURSIVE TopicsLoop(_, _)
TopicsLoop(matches, topics) ==
    IF matches = <<>> THEN topics
    ELSE TopicsLoop(Tail(matches),
                    TopicAppended(topics, ToFloat(matches[1].group1), matches[1].group2))

\* _parse_topics_response; a response that is no string makes re.findall raise
\* TypeError, which the handler turns into the empty list
ParseTopicsResponse(content) ==
    IF content.isNone THEN <<>>
    ELSE TopicsLoop(TopicFindAll(content.text, 1), <<>>)

\* the lines an oracle may write: entries 'TOPIC N: <seconds>s - <description>'
\* with what they say, entries that lack a part, and other text
TopicLines ==
    {[text |-> <<"TOPIC", " ", "1", ":", " ", "4", "5", "s", " ", "-", " ", "inflation">>,
      wellformed |-> TRUE,
      timestamp |-> Float(45, 0), description |-> <<"inflation">>],
     [text |-> <<"TOPIC", " ", "2", ":", " ", "4", ".", "5", "s", " ", "-", " ",
                 "fed", " ", "policy">>,
      wellformed |-> TRUE,
      timestamp |-> Float(45, 1), description |-> <<"fed", " ", "policy">>],
     [text |-> <<"TOPIC", " ", "1", ":", " ", "n/a", " ", "-", " ", "inflation">>,
      wellformed |-> FALSE, timestamp |-> None, description |-> <<>>],
     [text |-> <<"TOPIC", " ", "2", ":", " ", "4", "5", " ", "-", " ", "inflation">>,
      wellformed |-> FALSE, timestamp |-> None, description |-> <<>>],
     [text |-> <<"TOPIC", " ", "3", ":", " ", "4", "5", "s", " ", "-">>,
      wellformed |-> FALSE, timestamp |-> None, description |-> <<>>],
     [text |-> <<"x">>,
      wellformed |-> FALSE, timestamp |-> None, description |-> <<>>]}

\* the text of the lines, one below the other
RECURSIVE JoinLines(_)
JoinLines(lines) ==
    IF lines = <<>> THEN <<>>
    ELSE IF Len(lines) = 1 THEN lines[1].text
    ELSE lines[1].text \o <<"\n">> \o JoinLines(Tail(lines))

\* extract_key_topics is called; no other call is under way
InitTopics ==
    /\ top = [pc |-> "start"]
    /\ pipe = [pc |-> "idle"]
    /\ prep = [pc |-> "idle"]
    /\ imp = [pc |-> "idle"]
    /\ cls = [pc |-> "idle"]
    /\ pc = "idle"
    /\ response = NoResponse
    /\ timestamps = <<None, None>>
    /\ ret = <<None, None>>
    /\ exc = ""
    /\ queries = 0
    /\ batch_pc = "idle"
    /\ clip_descriptions = <<>>
    /\ batch_i = 0
    /\ results = <<>>
    /\ batch_log = <<>>
    /\ batch_inflight = {}

\* the oracle call returns a message made of at most MaxTopicLines lines
TopicsQueryOk ==
    /\ top.pc = "start"
    /\ \E n \in 0..MaxTopicLines : \E lines \in [1..n -> TopicLines] :
          top' = [pc |-> "queried", lines |-> lines,
                  response |-> [ok |-> TRUE, error |-> "",
                                content |-> Content(JoinLines(lines))]]
    /\ UNCHANGED <<fcVars, batchVars, imp, cls, pipe, prep>>

\* the oracle call returns a message without content
TopicsQueryNone ==
    /\ top.pc = "start"
    /\ top' = [pc |-> "queried", lines |-> <<>>,
               response |-> [ok |-> TRUE, error |-> "", content |-> NoneContent]]
    /\ UNCHANGED <<fcVars, batchVars, imp, cls, pipe, prep>>

\* the oracle call raises: the handler returns []
TopicsQueryFails ==
    /\ top.pc = "start"
    /\ \E err \in OracleErrors :
          top' = [pc |-> "returned", lines |-> <<>>,
                  response |-> [ok |-> FALSE, error |-> err, content |-> NoneContent],
                  result |-> <<>>]
    /\ UNCHANGED <<fcVars, batchVars, imp, cls, pipe, prep>>

\* return self._parse_topics_response(...)
TopicsParse ==
    /\ top.pc = "queried"
    /\ top' = [pc |-> "returned", lines |-> top.lines, response |-> top.response,
               result |-> ParseTopicsResponse(top.response.content)]
    /\ UNCHANGED <<fcVars, batchVars, imp, cls, pipe, prep>>

NextTopics == TopicsQueryOk \/ TopicsQueryNone \/ TopicsQueryFails \/ TopicsParse

----------------------------------------------------------------------------
(* Numbers of the classifier: exact fractions <<n, d>> with d > 0, in lowest
   terms.  The source computes in binary floating point; the inputs of the
   model keep scores and confidences away from its rounding. *)

RECURSIVE GCD(_, _)
GCD(a, b) == IF b = 0 THEN a ELSE GCD(b, a % b)

LCM(x, y) == (x \div GCD(x, y)) * y

\* n / d in lowest terms, for n >= 0
Rat(n, d) == <<n \div GCD(n, d), d \div GCD(n, d)>>

Zero == <<0, 1>>

One == <<1, 1>>

\* a + b, over the least common denominator
RAdd(a, b) ==
    Rat(a[1] * (LCM(a[2], b[2]) \div a[2]) + b[1] * (LCM(a[2], b[2]) \div b[2]),
        LCM(a[2], b[2]))

\* a * b, reduced crosswise before multiplying
RMul(a, b) ==
    <<(a[1] \div GCD(a[1], b[2])) * (b[1] \div GCD(b[1], a[2])),
      (b[2] \div GCD(a[1], b[2])) * (a[2] \div GCD(b[1], a[2]))>>

\* a < b
RLt(a, b) ==
    a[1] * (LCM(a[2], b[2]) \div a[2]) < b[1] * (LCM(a[2], b[2]) \div b[2])

\* the value left as it is
Unclamped(a) == a

\* min(a, 1.0)
MinOne(a) == IF a[1] < a[2] THEN a ELSE One

----------------------------------------------------------------------------
(* Texts of the classifier: a text is a sequence of characters; the symbol
   "zz" stands for a run of PadWidth letters z *)

\* width of the run of letters that "zz" stands for
PadWidth == 400

\* str.lower()
LowerText(t) ==
    [i \in 1..Len(t) |->
        CASE t[i] = "F" -> "f"
          [] t[i] = "B" -> "b"
          [] t[i] = "G" -> "g"
          [] OTHER -> t[i]]

\* len(text)
RECURSIVE TextLen(_)
TextLen(t) ==
    IF t = <<>> THEN 0
    ELSE (IF t[1] = "zz" THEN PadWidth ELSE 1) + TextLen(Tail(t))

\* the offset of the character at index i, as match.start() gives it
Offset(t, i) == TextLen(SubSeq(t, 1, i - 1))

\* \w
IsWordChar(c) == c \notin {" ", ",", "."}

\* the keyword stands in the text from index i on
StandsAt(t, i, keyword) ==
    /\ i + Len(keyword) - 1 <= Len(t)
    /\ SubSeq(t, i, i + Len(keyword) - 1) = keyword

\* keyword in text
IsSubstring(keyword, t) == \E i \in 1..Len(t) : StandsAt(t, i, keyword)

\* r'\b' + re.escape(keyword) + r'\b' matches from index i on
WordMatchAt(t, i, keyword) ==
    /\ StandsAt(t, i, keyword)
    /\ i = 1 \/ ~IsWordChar(t[i - 1])
    /\ i + Len(keyword) > Len(t) \/ ~IsWordChar(t[i + Len(keyword)])

\* re.finditer: the indices of the matches from index i on, left to right,
\* the search going on after each match
RECURSIVE WordMatches(_, _, _)
WordMatches(t, i, keyword) ==
    IF i > Len(t) THEN <<>>
    ELSE IF WordMatchAt(t, i, keyword)
         THEN <<i>> \o WordMatches(t, i + Len(keyword), keyword)
    ELSE WordMatches(t, i + 1, keyword)

\* str.strip() leaves nothing
IsBlank(t) == \A i \in 1..Len(t) : IsSpace(t[i])

----------------------------------------------------------------------------
(* config.TOPIC_CATEGORIES and TopicClassifier._calculate_category_weights *)

\* the spelling of the keywords, character by character
kw ==
    [inflation |->
        <<"i", "n", "f", "l", "a", "t", "i", "o", "n">>,
     cpi |->
        <<"c", "p", "i">>,
     federal_reserve |->
        <<"f", "e", "d", "e", "r", "a", "l", " ", "r", "e", "s", "e", "r", "v", "e">>,
     fed |->
        <<"f", "e", "d">>,
     interest_rate |->
        <<"i", "n", "t", "e", "r", "e", "s", "t", " ", "r", "a", "t", "e">>,
     stocks |->
        <<"s", "t", "o", "c", "k", "s">>,
     gdp |->
        <<"g", "d", "p">>,
     bitcoin |->
        <<"b", "i", "t", "c", "o", "i", "n">>,
     unemployment_rate |->
        <<"u", "n", "e", "m", "p", "l", "o", "y", "m", "e", "n", "t", " ", "r", "a", "t", "e">>]

\* the configured categories and their keywords, in the order of the mapping
TOPIC_CATEGORIES ==
    <<[category |-> "inflation", keywords |-> <<kw.inflation, kw.cpi>>],
      [category |-> "fed", keywords |-> <<kw.fed, kw.federal_reserve, kw.interest_rate>>],
      [category |-> "markets", keywords |-> <<kw.stocks>>],
      [category |-> "gdp", keywords |-> <<kw.gdp>>],
      [category |-> "crypto", keywords |-> <<kw.bitcoin>>],
      [category |-> "general", keywords |-> <<>>]>>

\* self.categories
categories == TOPIC_CATEGORIES

CategoryNames == {categories[i].category : i \in 1..Len(categories)}

specific_terms ==
    <<kw.federal_reserve, kw.interest_rate, kw.cpi, kw.gdp, kw.unemployment_rate>>

\* len(keyword.split()) for a keyword that is already stripped
RECURSIVE WordCount(_)
WordCount(keyword) ==
    IF keyword = <<>> THEN 0
    ELSE IF Len(keyword) = 1 THEN 1
    ELSE IF IsSpace(keyword[1]) /\ ~IsSpace(keyword[2])
         THEN 1 + WordCount(Tail(keyword))
    ELSE WordCount(Tail(keyword))

KeywordWeightSpecificOnly(keyword) ==
    IF \E n \in 1..Len(specific_terms) : specific_terms[n] = keyword THEN <<2, 1>>
    ELSE IF WordCount(keyword) > 1 THEN <<3, 2>>
    ELSE One

\* base_weight of one keyword: 1.0, times 1.5 for a phrase, times 2.0 for one
\* of the specific terms
KeywordWeight(keyword) ==
    RMul(IF WordCount(keyword) > 1 THEN <<3, 2>> ELSE One,
         IF \E n \in 1..Len(specific_terms) : specific_terms[n] = keyword
         THEN <<2, 1>> ELSE One)

\* the weights of the categories cats: no entry for 'general'
CategoryWeights(cats) ==
    [category \in {cats[i].category : i \in 1..Len(cats)} \ {"general"} |->
        LET keywords == cats[CHOOSE i \in 1..Len(cats) : cats[i].category = category].keywords
        IN  [keyword \in {keywords[n] : n \in 1..Len(keywords)} |->
                KeywordWeight(keyword)]]

\* _calculate_category_weights for the configured categories
CalculateCategoryWeights == CategoryWeights(categories)

\* self.category_weights
category_weights == CalculateCategoryWeights

\* self.category_weights[category].get(keyword, 1.0)
WeightOf(category, keyword) ==
    IF keyword \in DOMAIN category_weights[category]
    THEN category_weights[category][keyword]
    ELSE One

----------------------------------------------------------------------------
(* TopicClassifier.classify_by_description *)

\* the entry of a category in category_scores, when its score is positive
ScoredEntry(category, score, matched_keywords) ==
    IF score[1] > 0
    THEN <<[category |-> category, score |-> score,
            matched_keywords |-> matched_keywords]>>
    ELSE <<>>

RECURSIVE DescriptionScoreUnweighted(_, _, _)
DescriptionScoreUnweighted(category, keywords, text) ==
    IF keywords = <<>> THEN Zero
    ELSE RAdd(IF IsSubstring(Head(keywords), text) THEN One ELSE Zero,
              DescriptionScoreUnweighted(category, Tail(keywords), text))

\* the sum of the weights of the keywords that occur in the text
RECURSIVE DescriptionScore(_, _, _)
DescriptionScore(category, keywords, text) ==
    IF keywords = <<>> THEN Zero
    ELSE RAdd(IF IsSubstring(Head(keywords), text)
              THEN WeightOf(category, Head(keywords))
              ELSE Zero,
              DescriptionScore(category, Tail(keywords), text))

\* category_scores of classify_by_description, from category i on, in the
\* order of the configuration
RECURSIVE DescriptionScores(_, _)
DescriptionScores(i, text) ==
    IF i > Len(categories) THEN <<>>
    ELSE IF categories[i].category = "general" THEN DescriptionScores(i + 1, text)
    ELSE ScoredEntry(categories[i].category,
                     DescriptionScore(categories[i].category, categories[i].keywords, text),
                     SelectSeq(categories[i].keywords,
                               LAMBDA keyword : IsSubstring(keyword, text)))
         \o DescriptionScores(i + 1, text)

\* max(category_scores, key=score): the first entry of maximal score
BestOf(scores) ==
    scores[CHOOSE i \in 1..Len(scores) :
              \A j \in 1..Len(scores) :
                 /\ j < i => RLt(scores[j].score, scores[i].score)
                 /\ j > i => ~RLt(scores[i].score, scores[j].score)]

\* the result of classify_by_description for the scores of the categories
DescriptionResult(scores) ==
    IF scores # <<>>
    THEN [primary_category |-> BestOf(scores).category,
          confidence_score |-> MinOne(RMul(BestOf(scores).score, <<1, 5>>)),
          all_scores |-> scores,
          method |-> "description_keywords"]
    ELSE [primary_category |-> "general", confidence_score |-> Zero,
          all_scores |-> <<>>, method |-> "default_fallback"]

ClassifyByDescription(description) ==
    DescriptionResult(DescriptionScores(1, LowerText(description)))

----------------------------------------------------------------------------
(* TopicClassifier.classify_by_content and _calculate_clustering_bonus *)

PairBonusFlat(distance) == IF distance <= 100 THEN One ELSE Zero

\* the bonus of two adjacent positions
PairBonus(distance) == IF distance <= 100 THEN Rat(100 - distance, 100) ELSE Zero

RECURSIVE PairBonusFrom(_, _)
PairBonusFrom(sorted, i) ==
    IF i > Len(sorted) THEN Zero
    ELSE RAdd(PairBonus(sorted[i] - sorted[i - 1]), PairBonusFrom(sorted, i + 1))

CalculateClusteringBonus(positions, content_length) ==
    IF Len(positions) < 2 THEN Zero
    ELSE PairBonusFrom(SortSeq(positions, LAMBDA a, b : a < b), 2)

\* the sum of weight * occurrences over the keywords
RECURSIVE ContentScore(_, _, _)
ContentScore(category, keywords, text) ==
    IF keywords = <<>> THEN Zero
    ELSE RAdd(RMul(WeightOf(category, Head(keywords)),
                   <<Len(WordMatches(text, 1, Head(keywords))), 1>>),
              ContentScore(category, Tail(keywords), text))

\* keyword_positions: the starts of the matches, keyword after keyword
RECURSIVE KeywordPositions(_, _)
KeywordPositions(keywords, text) ==
    IF keywords = <<>> THEN <<>>
    ELSE LET indices == WordMatches(text, 1, Head(keywords))
         IN  [n \in 1..Len(indices) |-> Offset(text, indices[n])]
             \o KeywordPositions(Tail(keywords), text)

\* the entry of a category in category_scores, when its score is positive
ContentEntry(category, score, density_bonus, clustering_bonus, matched_keywords) ==
    IF score[1] > 0
    THEN <<[category |-> category,
            score |-> RAdd(RAdd(score, density_bonus), clustering_bonus),
            base_score |-> score,
            density_bonus |-> density_bonus,
            clustering_bonus |-> clustering_bonus,
            matched_keywords |-> matched_keywords,
            keyword_count |-> Len(matched_keywords)]>>
    ELSE <<>>

\* category_scores of classify_by_content, from category i on
RECURSIVE ContentScores(_, _)
ContentScores(i, text) ==
    IF i > Len(categories) THEN <<>>
    ELSE IF categories[i].category = "general" THEN ContentScores(i + 1, text)
    ELSE LET score == ContentScore(categories[i].category, categories[i].keywords, text)
         IN  ContentEntry(categories[i].category, score,
                          RMul(RMul(score, <<1, TextLen(text)>>), <<1000, 1>>),
                          CalculateClusteringBonus(
                              KeywordPositions(categories[i].keywords, text), TextLen(text)),
                          SelectSeq(categories[i].keywords,
                                    LAMBDA keyword : WordMatches(text, 1, keyword) # <<>>))
             \o ContentScores(i + 1, text)

\* the result of classify_by_content for the scores of the categories: the
\* confidence is (max_score / 10.0) * (1 + keyword_diversity * 0.1), at most 1
ContentResult(scores) ==
    IF scores # <<>>
    THEN [primary_category |-> BestOf(scores).category,
          confidence_score |->
             MinOne(RMul(RMul(BestOf(scores).score, <<1, 10>>),
                         RAdd(One, Rat(Len(BestOf(scores).matched_keywords), 10)))),
          all_scores |-> scores,
          method |-> "content_analysis"]
    ELSE [primary_category |-> "general", confidence_score |-> Zero,
          all_scores |-> <<>>, method |-> "no_keywords_found"]

ClassifyByContent(transcript_segment) ==
    IF IsBlank(transcript_segment)
    THEN [primary_category |-> "general", confidence_score |-> Zero,
          all_scores |-> <<>>, method |-> "empty_content"]
    ELSE ContentResult(ContentScores(1, LowerText(transcript_segment)))

----------------------------------------------------------------------------
(* The texts given to the classifier *)

\* the descriptions given to the classifier
Descriptions ==
    {<<>>,
     kw.federal_reserve \o <<" ">> \o kw.interest_rate,
     kw.federal_reserve,
     <<"F", "e", "d", " ">> \o kw.stocks,
     kw.bitcoin,
     kw.interest_rate \o <<"s", ",", " ">> \o kw.cpi,
     <<"w", "e", "a", "t", "h", "e", "r">>,
     kw.gdp \o <<" ">> \o kw.stocks}

\* the pieces a transcript segment is made of: keywords and long other words
ContentSegments ==
    {kw.fed \o <<" ">>, kw.bitcoin \o <<" ">>, kw.cpi \o <<" ">>,
     kw.gdp \o <<",", " ">>, <<"zz", " ">>}

TranscriptSegments == TextsOf(ContentSegments, MaxContentSegs)

\* self.classify_by_description, tabulated over the descriptions of the model
classify_by_description ==
    [description \in Descriptions |-> ClassifyByDescription(description)]

\* self.classify_by_content, tabulated over the transcript segments of the model
classify_by_content ==
    [transcript_segment \in TranscriptSegments |-> ClassifyByContent(transcript_segment)]

----------------------------------------------------------------------------
(* TopicClassifier.classify_combined *)

AgreementAveraged(desc_result, content_result, start_time, end_time) ==
    [primary_category |-> desc_result.primary_category,
     confidence_score |->
        MinOne(RMul(RAdd(desc_result.confidence_score, content_result.confidence_score),
                    <<1, 2>>)),
     description_result |-> desc_result,
     content_result |-> content_result,
     method |-> "combined_agreement",
     clip_duration |-> end_time - start_time]

\* the two methods agree
Agreement(desc_result, content_result, start_time, end_time) ==
    [primary_category |-> desc_result.primary_category,
     confidence_score |->
        MinOne(RMul(RAdd(desc_result.confidence_score, content_result.confidence_score),
                    <<2, 3>>)),
     description_result |-> desc_result,
     content_result |-> content_result,
     method |-> "combined_agreement",
     clip_duration |-> end_time - start_time]

\* the two methods disagree: the confidence of the primary result times 0.7
Disagreement(primary_result, desc_result, content_result, method, start_time, end_time) ==
    [primary_category |-> primary_result.primary_category,
     confidence_score |-> RMul(primary_result.confidence_score, <<7, 10>>),
     description_result |-> desc_result,
     content_result |-> content_result,
     method |-> method,
     clip_duration |-> end_time - start_time,
     disagreement |-> TRUE]

CombinedEitherFirst(desc_result, content_result, start_time, end_time) ==
    IF desc_result.primary_category = content_result.primary_category
    THEN Agreement(desc_result, content_result, start_time, end_time)
    ELSE Disagreement(desc_result, desc_result, content_result,
                      "description_primary", start_time, end_time)

CombinedContentFirst(desc_result, content_result, start_time, end_time) ==
    IF desc_result.primary_category = content_result.primary_category
    THEN Agreement(desc_result, content_result, start_time, end_time)
    ELSE Disagreement(content_result, desc_result, content_result,
                      "content_primary", start_time, end_time)

\* the body of classify_combined after the two classifications
Combined(desc_result, content_result, start_time, end_time) ==
    IF desc_result.primary_category = content_result.primary_category
    THEN Agreement(desc_result, content_result, start_time, end_time)
    ELSE IF RLt(content_result.confidence_score, desc_result.confidence_score)
         THEN Disagreement(desc_result, desc_result, content_result,
                           "description_primary", start_time, end_time)
    ELSE Disagreement(content_result, desc_result, content_result,
                      "content_primary", start_time, end_time)

ClassifyCombined(description, transcript_segment, start_time, end_time) ==
    Combined(classify_by_description[description], classify_by_content[transcript_segment],
             start_time, end_time)

----------------------------------------------------------------------------
(* TopicClassifier.get_category_suggestions *)

\* the entries of combined_scores made from the description scores
FromDescription(desc_scores) ==
    [n \in 1..Len(desc_scores) |->
        [category |-> desc_scores[n].category,
         description_score |-> desc_scores[n].score,
         content_score |-> Zero,
         combined_score |-> RMul(desc_scores[n].score, <<6, 10>>)]]

\* one content score is added: to the entry of its category when there is
\* one, as a new last entry otherwise
AddContent(combined, data) ==
    IF \E n \in 1..Len(combined) : combined[n].category = data.category
    THEN [n \in 1..Len(combined) |->
            IF combined[n].category = data.category
            THEN [combined[n] EXCEPT
                    !.content_score = data.score,
                    !.combined_score = RAdd(@, RMul(data.score, <<8, 10>>))]
            ELSE combined[n]]
    ELSE Append(combined,
                [category |-> data.category,
                 description_score |-> Zero,
                 content_score |-> data.score,
                 combined_score |-> RMul(data.score, <<8, 10>>)])

RECURSIVE AddContents(_, _)
AddContents(combined, content_scores) ==
    IF content_scores = <<>> THEN combined
    ELSE AddContents(AddContent(combined, Head(content_scores)), Tail(content_scores))

Suggestions(combined) ==
    [n \in 1..Len(combined) |->
        [category |-> combined[n].category,
         confidence |-> MinOne(RMul(combined[n].combined_score, <<1, 10>>)),
         description_score |-> combined[n].description_score,
         content_score |-> combined[n].content_score]]

\* x is put behind the k entries whose confidence is not less than its own
InsertByConfidence(sorted, x) ==
    LET k == Cardinality({n \in 1..Len(sorted) :
                             ~RLt(sorted[n].confidence, x.confidence)})
    IN  SubSeq(sorted, 1, k) \o <<x>> \o SubSeq(sorted, k + 1, Len(sorted))

\* the list left in insertion order
Unsorted(suggestions) == suggestions

\* suggestions.sort(key=confidence, reverse=True): stable
RECURSIVE SortByConfidence(_)
SortByConfidence(suggestions) ==
    IF suggestions = <<>> THEN <<>>
    ELSE InsertByConfidence(
            SortByConfidence(SubSeq(suggestions, 1, Len(suggestions) - 1)),
            suggestions[Len(suggestions)])

\* suggestions[:3]
TopThree(suggestions) ==
    IF Len(suggestions) > 3 THEN SubSeq(suggestions, 1, 3) ELSE suggestions

SuggestionsOf(desc_result, content_result) ==
    TopThree(SortByConfidence(Suggestions(
        AddContents(FromDescription(desc_result.all_scores), content_result.all_scores))))

GetCategorySuggestions(description, transcript_segment) ==
    SuggestionsOf(classify_by_description[description], classify_by_content[transcript_segment])

----------------------------------------------------------------------------
(* TopicClassifier.validate_classification *)

\* next((s for s in suggestions if s['category'] == category), None)
ManualSuggestion(suggestions, category) ==
    SelectSeq(suggestions, LAMBDA s : s.category = category)

\* any suggestion accepted, whatever its confidence
AlternativeAlways(auto_result, manual_suggestion) ==
    IF manual_suggestion # <<>>
    THEN [valid |-> TRUE, reason |-> "reasonable alternative",
          confidence |-> manual_suggestion[1].confidence,
          agreement |-> FALSE,
          auto_category |-> auto_result.primary_category]
    ELSE [valid |-> FALSE, reason |-> "does not match content",
          confidence |-> Zero,
          agreement |-> FALSE,
          auto_category |-> auto_result.primary_category]

\* the manual category is not the automatic one: look it up in the suggestions
Alternative(auto_result, manual_suggestion) ==
    IF manual_suggestion # <<>> /\ RLt(<<3, 10>>, manual_suggestion[1].confidence)
    THEN [valid |-> TRUE, reason |-> "reasonable alternative",
          confidence |-> manual_suggestion[1].confidence,
          agreement |-> FALSE,
          auto_category |-> auto_result.primary_category]
    ELSE [valid |-> FALSE, reason |-> "does not match content",
          confidence |-> Zero,
          agreement |-> FALSE,
          auto_category |-> auto_result.primary_category]

Validated(category, auto_result, suggestions) ==
    IF auto_result.primary_category = category
    THEN [valid |-> TRUE, reason |-> "matches automatic analysis",
          confidence |-> auto_result.confidence_score,
          agreement |-> TRUE]
    ELSE Alternative(auto_result, ManualSuggestion(suggestions, category))

\* the category is not looked up in the configuration
ValidateClassificationUnchecked(category, description, transcript_segment) ==
    Validated(category,
              ClassifyCombined(description, transcript_segment, 0, 60),
              GetCategorySuggestions(description, transcript_segment))

ValidateClassification(category, description, transcript_segment) ==
    IF category \notin CategoryNames
    THEN [valid |-> FALSE, reason |-> "does not exist", confidence |-> Zero]
    ELSE Validated(category,
                   ClassifyCombined(description, transcript_segment, 0, 60),
                   GetCategorySuggestions(description, transcript_segment))

\* the methods validate_classification calls, in the order of the calls: none
\* for an unknown category, get_category_suggestions only when the automatic
\* category is another one
ValidationCalls(category, auto_result) ==
    IF category \notin CategoryNames THEN <<>>
    ELSE IF auto_result.primary_category = category THEN <<"classify_combined">>
    ELSE <<"classify_combined", "get_category_suggestions">>

----------------------------------------------------------------------------
(* TopicClassifier.get_category_info *)

\* descriptions.get(category, 'Economic content category') for the categories
\* of the model
CategoryDescription(category) ==
    CASE category = "inflation" ->
            "Content related to inflation, price levels, and cost analysis"
      [] category = "fed" ->
            "Federal Reserve policy, interest rates, and monetary decisions"
      [] category = "markets" -> "Stock market analysis, trading, and investment content"
      [] category = "gdp" -> "Economic growth, GDP data, and productivity discussions"
      [] category = "crypto" -> "Cryptocurrency, digital assets, and blockchain regulation"
      [] category = "general" -> "Uncategorized economic content"
      [] OTHER -> "Economic content category"

GetCategoryInfo(cats, category) ==
    IF ~\E i \in 1..Len(cats) : cats[i].category = category
    THEN [category |-> category, exists |-> FALSE, keywords |-> <<>>,
          description |-> "Unknown category"]
    ELSE LET keywords == cats[CHOOSE i \in 1..Len(cats) : cats[i].category = category].keywords
         IN  [category |-> category, exists |-> TRUE, keywords |-> keywords,
              description |-> CategoryDescription(category),
              keyword_count |-> Len(keywords)]

----------------------------------------------------------------------------
(* The calls of the classifier *)

\* a classifier has been constructed; no other call is under way
InitClassifier ==
    /\ cls = [pc |-> "ready", categories |-> categories,
              category_weights |-> category_weights]
    /\ top = [pc |-> "idle"]
    /\ pipe = [pc |-> "idle"]
    /\ prep = [pc |-> "idle"]
    /\ imp = [pc |-> "idle"]
    /\ pc = "idle"
    /\ response = NoResponse
    /\ timestamps = <<None, None>>
    /\ ret = <<None, None>>
    /\ exc = ""
    /\ queries = 0
    /\ batch_pc = "idle"
    /\ clip_descriptions = <<>>
    /\ batch_i = 0
    /\ results = <<>>
    /\ batch_log = <<>>
    /\ batch_inflight = {}

CallClassifyCombined ==
    /\ cls.pc = "ready"
    /\ \E d \in Descriptions, c \in TranscriptSegments,
          times \in {<<0, 60>>, <<30, 45>>} :
          cls' = [pc |-> "returned", op |-> "classify_combined", category |-> "",
                  description |-> d, transcript_segment |-> c,
                  start_time |-> times[1], end_time |-> times[2],
                  result |-> ClassifyCombined(d, c, times[1], times[2]),
                  categories |-> cls.categories,
                  category_weights |-> cls.category_weights]
    /\ UNCHANGED <<fcVars, batchVars, imp, top, pipe, prep>>

CallGetCategorySuggestions ==
    /\ cls.pc = "ready"
    /\ \E d \in Descriptions, c \in TranscriptSegments :
          cls' = [pc |-> "returned", op |-> "get_category_suggestions", category |-> "",
                  description |-> d, transcript_segment |-> c,
                  start_time |-> 0, end_time |-> 0,
                  result |-> GetCategorySuggestions(d, c),
                  categories |-> cls.categories,
                  category_weights |-> cls.category_weights]
    /\ UNCHANGED <<fcVars, batchVars, imp, top, pipe, prep>>

CallValidateClassification ==
    /\ cls.pc = "ready"
    /\ \E category \in {"fed", "crypto", "inflation", "general", "sports"},
          d \in Descriptions, c \in TranscriptSegments :
          cls' = [pc |-> "returned", op |-> "validate_classification",
                  category |-> category,
                  description |-> d, transcript_segment |-> c,
                  start_time |-> 0, end_time |-> 60,
                  calls |-> ValidationCalls(category, ClassifyCombined(d, c, 0, 60)),
                  result |-> ValidateClassification(category, d, c),
                  categories |-> cls.categories,
                  category_weights |-> cls.category_weights]
    /\ UNCHANGED <<fcVars, batchVars, imp, top, pipe, prep>>

\* get_category_info with an unknown category entered into self.categories
CallGetCategoryInfoEntering ==
    /\ cls.pc = "ready"
    /\ \E category \in {"fed", "general", "sports"} :
          cls' = [pc |-> "returned", op |-> "get_category_info", category |-> category,
                  description |-> <<>>, transcript_segment |-> <<>>,
                  start_time |-> 0, end_time |-> 0,
                  result |-> GetCategoryInfo(cls.categories, category),
                  categories |->
                     IF \E i \in 1..Len(cls.categories) : cls.categories[i].category = category
                     THEN cls.categories
                     ELSE Append(cls.categories, [category |-> category, keywords |-> <<>>]),
                  category_weights |-> cls.category_weights]
    /\ UNCHANGED <<fcVars, batchVars, imp, top, pipe, prep>>

CallGetCategoryInfo ==
    /\ cls.pc = "ready"
    /\ \E category \in {"fed", "general", "sports"} :
          cls' = [pc |-> "returned", op |-> "get_category_info", category |-> category,
                  description |-> <<>>, transcript_segment |-> <<>>,
                  start_time |-> 0, end_time |-> 0,
                  result |-> GetCategoryInfo(cls.categories, category),
                  categories |-> cls.categories,
                  category_weights |-> cls.category_weights]
    /\ UNCHANGED <<fcVars, batchVars, imp, top, pipe, prep>>

CallClassifyByDescription ==
    /\ cls.pc = "ready"
    /\ \E d \in Descriptions :
          cls' = [pc |-> "returned", op |-> "classify_by_description", category |-> "",
                  description |-> d, transcript_segment |-> <<>>,
                  start_time |-> 0, end_time |-> 0,
                  result |-> classify_by_description[d],
                  categories |-> cls.categories,
                  category_weights |-> cls.category_weights]
    /\ UNCHANGED <<fcVars, batchVars, imp, top, pipe, prep>>

CallClassifyByContent ==
    /\ cls.pc = "ready"
    /\ \E c \in TranscriptSegments :
          cls' = [pc |-> "returned", op |-> "classify_by_content", category |-> "",
                  description |-> <<>>, transcript_segment |-> c,
                  start_time |-> 0, end_time |-> 0,
                  result |-> classify_by_content[c],
                  categories |-> cls.categories,
                  category_weights |-> cls.category_weights]
    /\ UNCHANGED <<fcVars, batchVars, imp, top, pipe, prep>>

\* the call is over and the classifier can be called again
ClassifierReturn ==
    /\ cls.pc = "returned"
    /\ cls' = [pc |-> "ready", categories |-> cls.categories,
               category_weights |-> cls.category_weights]
    /\ UNCHANGED <<fcVars, batchVars, imp, top, pipe, prep>>

NextClassifier ==
    \/ CallClassifyByDescription
    \/ CallClassifyByContent
    \/ CallClassifyCombined
    \/ CallGetCategorySuggestions
    \/ CallValidateClassification
    \/ CallGetCategoryInfo
    \/ ClassifierReturn

----------------------------------------------------------------------------
(* TopicClassifier.__init__ *)

\* a keyword of two words that is none of the specific terms
stock_market == kw.stocks \o <<" ">> \o <<"m", "a", "r", "k", "e", "t">>

\* the keyword lists of the configurations
KeywordLists ==
    UNION {[1..n -> {kw.stocks, stock_market, kw.cpi, kw.federal_reserve}] : n \in 0..MaxKeywords}

\* the configurations a classifier is constructed from: two categories and
\* 'general', each with a keyword list
Configurations ==
    {<<[category |-> "inflation", keywords |-> a], [category |-> "fed", keywords |-> b],
       [category |-> "general", keywords |-> g]>> :
        a \in KeywordLists, b \in KeywordLists, g \in {<<>>, <<kw.stocks>>}}

\* TopicClassifier() is called with the configuration of config.py; no other
\* call is under way
InitConstruct ==
    /\ \E c \in Configurations : cls = [pc |-> "new", config |-> c]
    /\ top = [pc |-> "idle"]
    /\ pipe = [pc |-> "idle"]
    /\ prep = [pc |-> "idle"]
    /\ imp = [pc |-> "idle"]
    /\ pc = "idle"
    /\ response = NoResponse
    /\ timestamps = <<None, None>>
    /\ ret = <<None, None>>
    /\ exc = ""
    /\ queries = 0
    /\ batch_pc = "idle"
    /\ clip_descriptions = <<>>
    /\ batch_i = 0
    /\ results = <<>>
    /\ batch_log = <<>>
    /\ batch_inflight = {}

\* __init__: self.categories and self.category_weights are set
Construct ==
    /\ cls.pc = "new"
    /\ cls' = [pc |-> "constructed", config |-> cls.config, categories |-> cls.config,
               category_weights |-> CategoryWeights(cls.config)]
    /\ UNCHANGED <<fcVars, batchVars, imp, top, pipe, prep>>

NextConstruct == Construct

----------------------------------------------------------------------------
(* The calls of _calculate_clustering_bonus *)

\* the positions of keyword occurrences: equal ones, near ones, and ones at a
\* distance of exactly 100, of 101 and of more
PositionValues == {0, 40, 100, 101, 250}

\* _calculate_clustering_bonus is called with a list of positions, in any
\* order; no other call is under way
InitClustering ==
    /\ \E n \in 0..MaxPositions : \E positions \in [1..n -> PositionValues] :
          cls = [pc |-> "bonus", positions |-> positions, content_length |-> 300]
    /\ top = [pc |-> "idle"]
    /\ pipe = [pc |-> "idle"]
    /\ prep = [pc |-> "idle"]
    /\ imp = [pc |-> "idle"]
    /\ pc = "idle"
    /\ response = NoResponse
    /\ timestamps = <<None, None>>
    /\ ret = <<None, None>>
    /\ exc = ""
    /\ queries = 0
    /\ batch_pc = "idle"
    /\ clip_descriptions = <<>>
    /\ batch_i = 0
    /\ results = <<>>
    /\ batch_log = <<>>
    /\ batch_inflight = {}

\* the bonus is returned
ClusteringBonusReturn ==
    /\ cls.pc = "bonus"
    /\ cls' = [pc |-> "bonus_returned", positions |-> cls.positions,
               content_length |-> cls.content_length,
               bonus |-> CalculateClusteringBonus(cls.positions, cls.content_length)]
    /\ UNCHANGED <<fcVars, batchVars, imp, top, pipe, prep>>

NextClustering == ClusteringBonusReturn

----------------------------------------------------------------------------
(* YouTubeClipper.process_video_to_clip (main.py) *)

\* the descriptions and the transcriptions the pipeline is run with
PipelineDescriptions == {<<>>, kw.federal_reserve, kw.bitcoin}

PipelineTranscripts == {kw.fed \o <<" ">>, kw.bitcoin \o <<" ">>}

\* what the oracle does when the pipeline asks the clip finder
PipelineOracle ==
    {[ok |-> TRUE, error |-> "", content |-> Content(t)] :
        t \in TextsOf(ResponseSegments, 2) \cup {ExampleResponse}}
    \cup {[ok |-> FALSE, error |-> err, content |-> NoneContent] : err \in OracleErrors}

\* one call of a collaborator: the value it returned, or the exception it raised
PipeCalled(step, value, raised) == [step |-> step, value |-> value, raised |-> raised]

\* Path(downloaded_path).unlink(): the file is removed, or the removal fails
Unlink(p, unlinked) ==
    [p EXCEPT !.unlink = IF unlinked THEN "removed" ELSE "failed",
              !.file_exists = IF unlinked THEN FALSE ELSE @]

PipeRaiseNoCleanup(p, call, e, message, unlinked) ==
    [p EXCEPT !.pc = "raised", !.calls = Append(@, call), !.exc = e,
              !.result = [@ EXCEPT !.error = message]]

\* the except clause: the error is recorded in the result, the downloaded
\* file is removed when there is one, a failure of the removal is only logged,
\* and the error is raised again
PipeRaise(p, call, e, message, unlinked) ==
    [(IF p.downloaded_path # "" /\ p.file_exists THEN Unlink(p, unlinked) ELSE p)
        EXCEPT !.pc = "raised", !.calls = Append(@, call), !.exc = e,
               !.result = [@ EXCEPT !.error = message]]

\* int(start_time_clip)
IntOf(v) == IF v.m < 0 THEN 0 - ((0 - v.m) \div Pow10(v.e)) ELSE v.m \div Pow10(v.e)

\* the output path: the topic directory and the whole seconds of the clip
OutputPath(p) ==
    [topic |-> p.result.topic, start |-> IntOf(p.timestamps[1]), end |-> IntOf(p.timestamps[2])]

\* process_video_to_clip is called; no other call is under way
InitPipeline ==
    /\ \E d \in PipelineDescriptions, setup_complete \in BOOLEAN :
          pipe = [pc |-> "called", setup_complete |-> setup_complete,
                  clip_description |-> d, calls |-> <<>>, exc |-> "",
                  downloaded_path |-> "", transcription_text |-> <<>>,
                  timestamps |-> <<None, None>>,
                  file_exists |-> FALSE, unlink |-> "",
                  result |-> [success |-> FALSE, video_info |-> "",
                              transcription_path |-> "", clip_path |-> "",
                              topic |-> "", error |-> ""]]
    /\ prep = [pc |-> "idle"]
    /\ top = [pc |-> "idle"]
    /\ imp = [pc |-> "idle"]
    /\ cls = [pc |-> "idle"]
    /\ pc = "idle"
    /\ response = NoResponse
    /\ timestamps = <<None, None>>
    /\ ret = <<None, None>>
    /\ exc = ""
    /\ queries = 0
    /\ batch_pc = "idle"
    /\ clip_descriptions = <<>>
    /\ batch_i = 0
    /\ results = <<>>
    /\ batch_log = <<>>
    /\ batch_inflight = {}

\* a clipper that is not set up raises ConfigurationError before the try block
PipeBegin ==
    /\ pipe.pc = "called"
    /\ pipe' = IF ~pipe.setup_complete
               THEN [pipe EXCEPT !.pc = "raised", !.exc = "ConfigurationError"]
               ELSE [pipe EXCEPT !.pc = "try"]
    /\ UNCHANGED <<fcVars, batchVars, imp, cls, top, prep>>

\* validate_youtube_input returns the video id or raises
PipeValidateUrl ==
    /\ pipe.pc = "try"
    /\ \E raised \in {"", "Exception"} :
          LET call == PipeCalled("validate_youtube_input", "video_id", raised)
          IN  pipe' = IF raised # "" THEN PipeRaise(pipe, call, raised, raised, FALSE)
                      ELSE [pipe EXCEPT !.pc = "identified", !.calls = Append(@, call)]
    /\ UNCHANGED <<fcVars, batchVars, imp, cls, top, prep>>

\* download_for_transcription returns a path, returns nothing, or raises
PipeDownload ==
    /\ pipe.pc = "identified"
    /\ \E call \in {PipeCalled("download", "video.mp4", ""), PipeCalled("download", "", ""),
                    PipeCalled("download", "", "VideoDownloadError")} :
          pipe' = IF call.raised # "" THEN PipeRaise(pipe, call, call.raised, call.raised, FALSE)
                  ELSE IF call.value = ""
                       THEN PipeRaise(pipe, call, "VideoDownloadError",
                                      "Failed to download video", FALSE)
                  ELSE [pipe EXCEPT !.pc = "downloaded", !.calls = Append(@, call),
                                    !.downloaded_path = call.value, !.file_exists = TRUE,
                                    !.result = [@ EXCEPT !.video_info = call.value]]
    /\ UNCHANGED <<fcVars, batchVars, imp, cls, top, prep>>

\* transcribe_both_formats and save_transcription: a text, or TranscriptionError
PipeTranscribe ==
    /\ pipe.pc = "downloaded"
    /\ \E text \in PipelineTranscripts, raised \in {"", "TranscriptionError"},
          unlinked \in BOOLEAN :
          LET call == PipeCalled("transcribe", text, raised)
          IN  pipe' = IF raised # "" THEN PipeRaise(pipe, call, raised, raised, unlinked)
                      ELSE [pipe EXCEPT !.pc = "transcribed", !.calls = Append(@, call),
                                        !.transcription_text = text,
                                        !.result = [@ EXCEPT !.transcription_path = "txt"]]
    /\ UNCHANGED <<fcVars, batchVars, imp, cls, top, prep>>

PipeFindClipGuess ==
    /\ pipe.pc = "transcribed"
    /\ \E resp \in PipelineOracle, unlinked \in BOOLEAN : \E r \in {FindClipTimestamps(resp)} :
          pipe' = IF r = Escaped
                  THEN PipeRaise(pipe, PipeCalled("find_clip_timestamps", <<None, None>>,
                                                  "ClipExtractionError"),
                                 "ClipExtractionError", "ClipExtractionError", unlinked)
                  ELSE [pipe EXCEPT !.pc = "resolved",
                           !.calls = Append(@, PipeCalled("find_clip_timestamps", r, "")),
                           !.timestamps = IF IsNone(r[1]) \/ IsNone(r[2])
                                          THEN <<Float(0, 0), Float(60, 0)>> ELSE r]
    /\ UNCHANGED <<fcVars, batchVars, imp, cls, top, prep>>

\* find_clip_timestamps raises or returns a pair; a pair with a None raises
\* ClipExtractionError
PipeFindClip ==
    /\ pipe.pc = "transcribed"
    /\ \E resp \in PipelineOracle, unlinked \in BOOLEAN : \E r \in {FindClipTimestamps(resp)} :
          pipe' = IF r = Escaped
                  THEN PipeRaise(pipe, PipeCalled("find_clip_timestamps", <<None, None>>,
                                                  "ClipExtractionError"),
                                 "ClipExtractionError", "ClipExtractionError", unlinked)
                  ELSE IF IsNone(r[1]) \/ IsNone(r[2])
                       THEN PipeRaise(pipe, PipeCalled("find_clip_timestamps", r, ""),
                                      "ClipExtractionError",
                                      "Could not identify clip timestamps", unlinked)
                  ELSE [pipe EXCEPT !.pc = "resolved",
                           !.calls = Append(@, PipeCalled("find_clip_timestamps", r, "")),
                           !.timestamps = r]
    /\ UNCHANGED <<fcVars, batchVars, imp, cls, top, prep>>

\* validate_clip_input returns or raises
PipeValidateClip ==
    /\ pipe.pc = "resolved"
    /\ \E raised \in {"", "Exception"}, unlinked \in BOOLEAN :
          LET call == PipeCalled("validate_clip_input", pipe.timestamps, raised)
          IN  pipe' = IF raised # "" THEN PipeRaise(pipe, call, raised, raised, unlinked)
                      ELSE [pipe EXCEPT !.pc = "validated", !.calls = Append(@, call)]
    /\ UNCHANGED <<fcVars, batchVars, imp, cls, top, prep>>

\* topic_classifier.classify_combined: only the primary category of its result
\* is kept (the clip duration it records is taken in whole seconds here)
PipeClassify ==
    /\ pipe.pc = "validated"
    /\ \E classification \in {ClassifyCombined(pipe.clip_description, pipe.transcription_text,
                                               IntOf(pipe.timestamps[1]),
                                               IntOf(pipe.timestamps[2]))} :
          pipe' = [pipe EXCEPT !.pc = "classified",
                      !.calls = Append(@, PipeCalled("classify_combined",
                                                     classification.primary_category, "")),
                      !.result = [@ EXCEPT !.topic = classification.primary_category]]
    /\ UNCHANGED <<fcVars, batchVars, imp, cls, top, prep>>

\* video_processor.create_clip returns success or not, or raises; after a
\* successful clip the downloaded file is removed, a failure of the removal is
\* only logged, and the result is returned
PipeCreateClip ==
    /\ pipe.pc = "classified"
    /\ \E call \in {PipeCalled("create_clip", TRUE, ""), PipeCalled("create_clip", FALSE, ""),
                    PipeCalled("create_clip", FALSE, "Exception")}, unlinked \in BOOLEAN :
          pipe' = IF call.raised # ""
                  THEN PipeRaise(pipe, call, call.raised, call.raised, unlinked)
                  ELSE IF ~call.value
                       THEN PipeRaise(pipe, call, "ClipExtractionError",
                                      "Failed to create video clip", unlinked)
                  ELSE [Unlink(pipe, unlinked)
                           EXCEPT !.pc = "returned", !.calls = Append(@, call),
                                  !.result = [@ EXCEPT !.clip_path = OutputPath(pipe),
                                                       !.success = TRUE]]
    /\ UNCHANGED <<fcVars, batchVars, imp, cls, top, prep>>

NextPipeline ==
    \/ PipeBegin \/ PipeValidateUrl \/ PipeDownload \/ PipeTranscribe
    \/ PipeFindClip \/ PipeValidateClip \/ PipeClassify \/ PipeCreateClip

----------------------------------------------------------------------------
(* Properties of find_clip_timestamps *)

\* a pair is (None, None), or (start, end) with end > start and both >= 0
NotFoundPair(p) == p = <<None, None>>

ValidPair(p) ==
    /\ p[1].k = "float" /\ p[2].k = "float"
    /\ FloatLt(p[1], p[2])
    /\ p[1].m >= 0 /\ p[2].m >= 0

\* C1: every result of _parse_timestamp_response and of find_clip_timestamps,
\* from the strict fields or from the fallback pattern, is (None, None) or a
\* pair (start, end) with end > start, start >= 0 and end >= 0.
C1_ResultIsNotFoundOrOrdered ==
    /\ pc \in {"parsed", "returned"} =>
          NotFoundPair(timestamps) \/ ValidPair(timestamps)
    /\ pc = "returned" => ret = timestamps

\* C1 witness: the strict fields give end < start and the call returns (None, None)
C1_Witness ==
    /\ pc = "returned"
    /\ response.content =
          Content(<<"START_TIME:", " ", "5", "0", "END_TIME:", " ", "5">>)
    /\ ret = <<None, None>>

\* C2 as stated: for all numbers with end > start, the response
\* 'START_TIME: start END_TIME: end' is returned as exactly (start, end).
C2_EchoReturnedUnchanged ==
    \A a \in EchoValues, b \in EchoValues :
        (/\ FloatLt(a, b)
         /\ pc = "returned"
         /\ response.content = Content(Echo(a, b)))
        => ret = <<a, b>>

\* C2 amended: for all numbers with 0 <= start < end, written as plain decimal
\* literals, the response 'START_TIME: start END_TIME: end' is returned as
\* exactly (start, end).
C2_NonNegativeEchoReturnedUnchanged ==
    \A a \in EchoValues, b \in EchoValues :
        (/\ a.m >= 0
         /\ FloatLt(a, b)
         /\ pc = "returned"
         /\ response.content = Content(Echo(a, b)))
        => ret = <<a, b>>

\* C2 witness: the echo of (4.5, 50.0) has been returned as (4.5, 50.0)
C2_Witness ==
    /\ pc = "returned"
    /\ response.content = Content(Echo(Float(45, 1), Float(50, 0)))
    /\ ret = <<Float(45, 1), Float(50, 0)>>

IsNotFound(m) == m.found /\ Upper(m.group1[1]) = "NOT_FOUND"

\* a field of the response that resolves to the NOT_FOUND sentinel
ResolvesToNotFound(t, field) == IsNotFound(FieldSearch(t, field, "NOT_FOUND"))

\* C3 as stated: if START_TIME or END_TIME resolves to NOT_FOUND, the result
\* is (None, None) and nothing is raised, whatever else the response holds.
C3_SentinelGivesNotFound ==
    (/\ pc \in {"parsed", "returned", "raised"}
     /\ response.ok
     /\ ~response.content.isNone
     /\ \/ ResolvesToNotFound(response.content.text, "START_TIME:")
        \/ ResolvesToNotFound(response.content.text, "END_TIME:"))
    => (pc # "raised" /\ timestamps = <<None, None>>)

\* C4: find_clip_timestamps raises only when the oracle call fails, and then
\* ClipExtractionError: for every content the oracle returns the call ends
\* with a valid pair or (None, None), and every failed call raises.
C4_RaisesOnlyOnOracleFailure ==
    /\ exc # "" => (exc = "ClipExtractionError" /\ ~response.ok)
    /\ pc = "raised" <=> exc # ""
    /\ (pc \notin {"start", "prepared"} /\ ~response.ok) => pc = "raised"
    /\ pc = "returned" => (response.ok /\ (NotFoundPair(ret) \/ ValidPair(ret)))

\* C4 witness: a response whose START_TIME is not a number was handled
\* without an exception
C4_Witness ==
    /\ pc = "returned"
    /\ response.content = Content(<<"START_TIME:", " ", "x">>)
    /\ ret = <<None, None>>
    /\ exc = ""

----------------------------------------------------------------------------
(* Properties of find_multiple_clips *)

\* what item i of the results must be, given only its own description and
\* what the oracle did on its own call
ItemAsIfAlone(i) ==
    /\ results[i].description = clip_descriptions[i]
    /\ IF batch_log[i].ok
       THEN /\ "error" \notin DOMAIN results[i]
            /\ <<results[i].start_time, results[i].end_time>> =
                  ParseTimestampResponse(batch_log[i].content)
            /\ results[i].success = ValidPair(ParseTimestampResponse(batch_log[i].content))
       ELSE /\ "error" \in DOMAIN results[i]
            /\ results[i].success = FALSE
            /\ results[i].start_time = None /\ results[i].end_time = None

\* C5: for any list of n descriptions and any pattern of oracle failures,
\* find_multiple_clips goes on after every failure and returns exactly n
\* results in input order, result i carrying description i; an item whose
\* oracle call failed has success = false and an error, and every other item
\* is what its own oracle answer alone determines.
C5_BatchIsolatesFailures ==
    /\ batch_pc \in {"loop", "calling", "returned"}
    /\ Len(results) = batch_i /\ Len(batch_log) = batch_i
    /\ batch_pc = "returned" => Len(results) = Len(clip_descriptions)
    /\ \A i \in 1..Len(results) : ItemAsIfAlone(i)

\* C5 witness: three descriptions, the call of the second failed, and the
\* three results are returned with only the second marked failed
C5_Witness ==
    /\ batch_pc = "returned"
    /\ Len(clip_descriptions) = 3 /\ Len(results) = 3
    /\ batch_log[1].ok /\ ~batch_log[2].ok /\ batch_log[3].ok
    /\ results[1].success /\ ~results[2].success /\ results[3].success
    /\ "error" \in DOMAIN results[2]

----------------------------------------------------------------------------
(* Properties of suggest_clip_improvements *)

\* the call failed: the oracle call raised, or its message could not be parsed
ImproveFailed ==
    /\ imp.pc = "returned"
    /\ ~imp.response.ok \/ imp.response.content.isNone

\* C6 as stated: suggest_clip_improvements never raises, and on any failure,
\* of the oracle call or of parsing, it returns the original start and end,
\* confidence LOW and a 'changed' indicator that is present and false.
C6_FailureDegradesToNoChange ==
    /\ imp.pc \in {"idle", "start", "queried", "returned"}
    /\ ImproveFailed =>
          /\ imp.result.suggested_start = imp.start_time
          /\ imp.result.suggested_end = imp.end_time
          /\ imp.result.confidence = "LOW"
          /\ "changed" \in DOMAIN imp.result
          /\ imp.result.changed = FALSE

----------------------------------------------------------------------------
(* Properties of the classifier *)

\* a call of op has returned
Returned(op) == cls.pc = "returned" /\ cls.op = op

\* a >= b
RGe(a, b) == ~RLt(a, b)

\* the larger of two confidences
RMax(a, b) == IF RLt(a, b) THEN b ELSE a

\* the two sub-classifications of the call agree on the primary category
SubResultsAgree ==
    classify_by_description[cls.description].primary_category =
        classify_by_content[cls.transcript_segment].primary_category

\* the result of classify_combined for sub-results d and c that agree
AgreementFormula(result, d, c) ==
    /\ result.primary_category = d.primary_category
    /\ result.confidence_score =
          MinOne(RMul(RAdd(d.confidence_score, c.confidence_score), <<2, 3>>))

\* C7 as stated: when the two sub-classifications agree, classify_combined
\* returns that category with confidence min((descConf + contentConf)/1.5, 1),
\* and this confidence is >= each of the two sub-confidences.
C7_AgreementAtLeastEach ==
    (Returned("classify_combined") /\ SubResultsAgree) =>
        /\ AgreementFormula(cls.result, classify_by_description[cls.description],
                            classify_by_content[cls.transcript_segment])
        /\ RGe(cls.result.confidence_score,
               classify_by_description[cls.description].confidence_score)
        /\ RGe(cls.result.confidence_score,
               classify_by_content[cls.transcript_segment].confidence_score)

\* the combined confidence r against the sub-confidences a and b: it is at
\* least the smaller one, and at least a when b is at least half of a
AtLeastWhenHalf(r, a, b) ==
    /\ RGe(r, a) \/ RGe(r, b)
    /\ RGe(b, RMul(a, <<1, 2>>)) => RGe(r, a)

\* C7 amended: when the two sub-classifications agree, classify_combined
\* returns that category with confidence min((descConf + contentConf)/1.5, 1);
\* this confidence is >= the smaller of the two sub-confidences, and >= a
\* sub-confidence whenever the other one is at least half of it.
C7_AgreementAtLeastSmaller ==
    (Returned("classify_combined") /\ SubResultsAgree) =>
        /\ AgreementFormula(cls.result, classify_by_description[cls.description],
                            classify_by_content[cls.transcript_segment])
        /\ AtLeastWhenHalf(cls.result.confidence_score,
               classify_by_description[cls.description].confidence_score,
               classify_by_content[cls.transcript_segment].confidence_score)
        /\ AtLeastWhenHalf(cls.result.confidence_score,
               classify_by_content[cls.transcript_segment].confidence_score,
               classify_by_description[cls.description].confidence_score)

\* C7 witness: both methods say fed with confidences below 1, and the
\* combined confidence is above both and below 1
C7_Witness ==
    /\ Returned("classify_combined") /\ SubResultsAgree
    /\ cls.result.primary_category = "fed"
    /\ cls.result.method = "combined_agreement"
    /\ RLt(Zero, classify_by_description[cls.description].confidence_score)
    /\ RLt(classify_by_description[cls.description].confidence_score,
           cls.result.confidence_score)
    /\ RLt(classify_by_content[cls.transcript_segment].confidence_score,
           cls.result.confidence_score)
    /\ RLt(cls.result.confidence_score, One)

\* the result of classify_combined for sub-results d and c that disagree
DisagreementFormula(result, d, c) ==
    /\ RLt(c.confidence_score, d.confidence_score) =>
          result.primary_category = d.primary_category
    /\ RLt(d.confidence_score, c.confidence_score) =>
          result.primary_category = c.primary_category
    /\ result.primary_category \in {d.primary_category, c.primary_category}
    /\ result.confidence_score =
          RMul(RMax(d.confidence_score, c.confidence_score), <<7, 10>>)
    /\ RLt(result.confidence_score, RMax(d.confidence_score, c.confidence_score))
    /\ "disagreement" \in DOMAIN result
    /\ result.disagreement = TRUE
    /\ result.description_result = d
    /\ result.content_result = c

\* C8: when the two sub-classifications disagree, classify_combined takes the
\* sub-result of higher confidence as primary, returns its category with 0.7
\* times its confidence, which is strictly less than that confidence, sets
\* the disagreement flag and keeps both sub-results in the output.
C8_DisagreementPenalised ==
    (Returned("classify_combined") /\ ~SubResultsAgree) =>
        DisagreementFormula(cls.result, classify_by_description[cls.description],
                            classify_by_content[cls.transcript_segment])

\* C8 witness: the description says crypto, the content says fed with a
\* higher confidence, and fed is returned with the flag set
C8_Witness ==
    /\ Returned("classify_combined") /\ ~SubResultsAgree
    /\ classify_by_description[cls.description].primary_category = "crypto"
    /\ classify_by_content[cls.transcript_segment].primary_category = "fed"
    /\ RLt(classify_by_description[cls.description].confidence_score,
           classify_by_content[cls.transcript_segment].confidence_score)
    /\ cls.result.primary_category = "fed"
    /\ cls.result.disagreement

\* the category is among the suggestions with a confidence above 0.3
SuggestedAbove(suggestions, category) ==
    \E n \in 1..Len(suggestions) :
        suggestions[n].category = category /\ RLt(<<3, 10>>, suggestions[n].confidence)

\* what validate_classification must return for a known category
ValidationFormula(result, category, auto_result, suggestions) ==
    IF auto_result.primary_category = category
    THEN /\ result.valid /\ result.agreement
         /\ result.confidence = auto_result.confidence_score
    ELSE IF SuggestedAbove(suggestions, category)
         THEN result.valid /\ ~result.agreement
    ELSE /\ ~result.valid /\ result.confidence = Zero
         /\ result.auto_category = auto_result.primary_category

\* C9: validate_classification for a known category: when the category is
\* the primary category of classify_combined, valid with agreement and the
\* combined confidence; otherwise, when the category is among the top-3
\* suggestions with confidence > 0.3, valid without agreement; otherwise
\* invalid with confidence 0 and the automatic category as guidance.
C9_ValidationCases ==
    (Returned("validate_classification") /\ cls.category \in CategoryNames) =>
        ValidationFormula(cls.result, cls.category,
            ClassifyCombined(cls.description, cls.transcript_segment, 0, 60),
            GetCategorySuggestions(cls.description, cls.transcript_segment))

InSuggestions(suggestions, category) ==
    \E n \in 1..Len(suggestions) : suggestions[n].category = category

\* C9 witness: crypto is proposed and is among the suggestions with a
\* confidence of at most 0.3, the automatic category is fed, and the result
\* is invalid with fed as guidance
C9_Witness ==
    /\ Returned("validate_classification") /\ cls.category = "crypto"
    /\ InSuggestions(GetCategorySuggestions(cls.description, cls.transcript_segment),
                     "crypto")
    /\ ~SuggestedAbove(GetCategorySuggestions(cls.description, cls.transcript_segment),
                       "crypto")
    /\ ~cls.result.valid
    /\ cls.result.confidence = Zero
    /\ cls.result.auto_category = "fed"

Descending(suggestions) ==
    \A i \in 1..Len(suggestions), j \in 1..Len(suggestions) :
        i < j => RGe(suggestions[i].confidence, suggestions[j].confidence)

\* C10: get_category_suggestions returns at most 3 entries, for every
\* description and content, sorted by confidence in descending order.
C10_TopThreeDescending ==
    Returned("get_category_suggestions") =>
        Len(cls.result) <= 3 /\ Descending(cls.result)

\* the categories scored by one of the two methods
ScoredCategories(desc_scores, content_scores) ==
    {desc_scores[n].category : n \in 1..Len(desc_scores)}
    \cup {content_scores[n].category : n \in 1..Len(content_scores)}

\* C10 witness: more than three categories are scored, three are returned,
\* and the first has a higher confidence than the last
C10_Witness ==
    /\ Returned("get_category_suggestions")
    /\ Cardinality(ScoredCategories(
           classify_by_description[cls.description].all_scores,
           classify_by_content[cls.transcript_segment].all_scores)) > 3
    /\ Len(cls.result) = 3
    /\ RLt(cls.result[3].confidence, cls.result[1].confidence)

----------------------------------------------------------------------------
(* Properties of the fallback pattern *)

\* neither strict field is found in the text
NoStrictFields(t) ==
    /\ ~FieldSearch(t, "START_TIME:", "NOT_FOUND").found
    /\ ~FieldSearch(t, "END_TIME:", "NOT_FOUND").found

\* the pair of numbers of a match of the fallback pattern
LoosePair(m) == <<ToFloat(m.group1), ToFloat(m.group2)>>

\* a loose pair with b > a stands at position i, its first number not being
\* the tail of a longer number
LoosePairAt(t, i) ==
    /\ LooseAt(t, i).found
    /\ i = 1 \/ (~IsDigit(t[i - 1]) /\ t[i - 1] # ".")
    /\ ValidPair(LoosePair(LooseAt(t, i)))

\* the call has returned for an oracle text without strict fields
ReturnedWithoutStrictFields ==
    /\ pc = "returned"
    /\ ~response.content.isNone
    /\ NoStrictFields(response.content.text)

\* C11 as stated: when the response has no strict START_TIME/END_TIME field
\* and contains a loose pair '<a> seconds ... <b> seconds' with b > a, the
\* result is (a, b).
C11_AnyLoosePairReturned ==
    ReturnedWithoutStrictFields =>
        \A i \in 1..Len(response.content.text) :
            LoosePairAt(response.content.text, i) =>
                ret = LoosePair(LooseAt(response.content.text, i))

\* C11 amended: when the response has no strict START_TIME/END_TIME field and
\* the leftmost match of the loose pattern is a pair with b > a, the result is
\* (a, b); 'the clip runs from 12.5 seconds to 45.0 seconds' gives (12.5, 45.0).
C11_LeftmostLoosePairReturned ==
    /\ (/\ ReturnedWithoutStrictFields
        /\ LooseSearch(response.content.text).found
        /\ ValidPair(LoosePair(LooseSearch(response.content.text))))
       => ret = LoosePair(LooseSearch(response.content.text))
    /\ (pc = "returned" /\ response.content = Content(ExampleResponse))
       => ret = <<Float(125, 1), Float(45, 0)>>

\* C11 witness: the example response was answered with (12.5, 45.0)
C11_Witness ==
    /\ pc = "returned"
    /\ response.content = Content(ExampleResponse)
    /\ NoStrictFields(ExampleResponse)
    /\ ret = <<Float(125, 1), Float(45, 0)>>

----------------------------------------------------------------------------
(* Properties of extract_key_topics *)

\* what the well-formed entries among the lines say, in their order
EntriesOf(lines) ==
    LET wellformed == SelectSeq(lines, LAMBDA l : l.wellformed)
    IN  [n \in 1..Len(wellformed) |->
            <<wellformed[n].timestamp, wellformed[n].description>>]

\* what the returned topics say
TopicsOf(topics) ==
    [n \in 1..Len(topics) |-> <<topics[n].timestamp, topics[n].description>>]

\* C12 as stated: extract_key_topics never raises; an oracle failure or a
\* parsing failure gives the empty list; a malformed entry of the response is
\* skipped on its own and every well-formed entry is returned, in the order
\* of the response.
C12_MalformedSkippedOnItsOwn ==
    /\ top.pc \in {"idle", "start", "queried", "returned"}
    /\ top.pc = "returned" =>
          IF ~top.response.ok \/ top.response.content.isNone
          THEN top.result = <<>>
          ELSE TopicsOf(top.result) = EntriesOf(top.lines)

----------------------------------------------------------------------------
(* Properties of the confidence scores *)

\* 0 <= c <= 1
InUnit(c) == RGe(c, Zero) /\ RGe(One, c)

\* C13: the confidence_score of every result of classify_by_description,
\* classify_by_content and classify_combined lies in [0, 1], for every
\* description, content and pair of clip times.
C13_ConfidenceInUnit ==
    Returned("classify_combined") =>
        /\ InUnit(cls.result.confidence_score)
        /\ InUnit(cls.result.description_result.confidence_score)
        /\ InUnit(cls.result.content_result.confidence_score)
        /\ cls.result.description_result = classify_by_description[cls.description]
        /\ cls.result.content_result = classify_by_content[cls.transcript_segment]

\* the score of the primary category of a sub-result
PrimaryScore(result) ==
    result.all_scores[CHOOSE n \in 1..Len(result.all_scores) :
                         result.all_scores[n].category = result.primary_category].score

\* C13 witness: the description scores more than 5 and the content more than
\* 10 for their categories, both confidences are 1, and the two disagree
C13_Witness ==
    /\ Returned("classify_combined")
    /\ cls.result.description_result.primary_category # "general"
    /\ cls.result.content_result.primary_category # "general"
    /\ RLt(<<5, 1>>, PrimaryScore(cls.result.description_result))
    /\ RLt(<<10, 1>>, PrimaryScore(cls.result.content_result))
    /\ cls.result.description_result.confidence_score = One
    /\ cls.result.content_result.confidence_score = One
    /\ cls.result.confidence_score = <<7, 10>>

----------------------------------------------------------------------------
(* Properties of the order of the calls in find_multiple_clips *)

\* C14: the descriptions are resolved one after another: the oracle call for
\* description i+1 is outstanding only when the results of descriptions 1..i
\* are recorded, at most one call is outstanding at any time, and the calls
\* follow the order of the input list.
C14_OneCallAtATime ==
    /\ Cardinality(batch_inflight) <= 1
    /\ batch_pc = "calling" <=> batch_inflight # {}
    /\ batch_inflight \subseteq {Len(results) + 1}
    /\ batch_inflight \subseteq 1..Len(clip_descriptions)
    /\ \A i \in 1..Len(results) : results[i].description = clip_descriptions[i]

\* C14 witness: the call for the second description is outstanding after the
\* error of the first one was recorded
C14_Witness ==
    /\ batch_pc = "calling"
    /\ batch_inflight = {2}
    /\ Len(results) = 1
    /\ "error" \in DOMAIN results[1]

----------------------------------------------------------------------------
(* Properties of validate_classification for unknown categories *)

\* C15: validate_classification with a category that is not in the configured
\* categories returns invalid with confidence 0 at once: the result is the
\* same for every description and content, and no classification is run.
C15_UnknownCategoryRejected ==
    (Returned("validate_classification") /\ cls.category \notin CategoryNames) =>
        /\ cls.result = [valid |-> FALSE, reason |-> "does not exist", confidence |-> Zero]
        /\ cls.calls = <<>>

\* C15 witness: an unknown category was rejected for a description and a
\* content that both classify as crypto, and a known category ran the
\* classification for the same texts
C15_Witness ==
    /\ Returned("validate_classification")
    /\ cls.category = "sports"
    /\ classify_by_description[cls.description].primary_category = "crypto"
    /\ classify_by_content[cls.transcript_segment].primary_category = "crypto"
    /\ ~cls.result.valid
    /\ cls.calls = <<>>
    /\ ValidationCalls("crypto", ClassifyCombined(cls.description, cls.transcript_segment,
                                                  0, 60)) = <<"classify_combined">>

----------------------------------------------------------------------------
(* Properties of the choice between the strict fields and the fallback *)

\* what two strict field values decide alone: (None, None) for a sentinel or
\* for end <= start, the pair of numbers otherwise
StrictDecision(start_str, end_str) ==
    IF Upper(start_str[1]) = "NOT_FOUND" \/ Upper(end_str[1]) = "NOT_FOUND"
    THEN <<None, None>>
    ELSE IF FloatLt(ToFloat(start_str), ToFloat(end_str))
    THEN <<ToFloat(start_str), ToFloat(end_str)>>
    ELSE <<None, None>>

\* the outcome for the text t under the rule of the claim
StrictOrFallback(t, start_match, end_match, fallback_match) ==
    IF start_match.found /\ end_match.found
    THEN StrictDecision(start_match.group1, end_match.group1)
    ELSE IF fallback_match.found /\ ValidPair(LoosePair(fallback_match))
    THEN LoosePair(fallback_match)
    ELSE <<None, None>>

\* C16: the fallback pattern is used only when START_TIME or END_TIME is not
\* found: when both strict fields are present they alone decide the outcome
\* (a valid pair, or (None, None) for a sentinel or for end <= start), whatever
\* loose pair the text holds; otherwise both values come from the fallback
\* match, never one from a strict field and one from the fallback.
C16_FallbackOnlyWithoutStrict ==
    (pc \in {"parsed", "returned"} /\ ~response.content.isNone) =>
        timestamps = StrictOrFallback(response.content.text,
                         FieldSearch(response.content.text, "START_TIME:", "NOT_FOUND"),
                         FieldSearch(response.content.text, "END_TIME:", "NOT_FOUND"),
                         LooseSearch(response.content.text))

\* C16 witness: both strict fields are present with end <= start, the text
\* also holds a loose pair with end > start, and the result is (None, None)
C16_Witness ==
    /\ pc = "returned"
    /\ ~response.content.isNone
    /\ FieldSearch(response.content.text, "START_TIME:", "NOT_FOUND").group1 = <<"5", "0">>
    /\ FieldSearch(response.content.text, "END_TIME:", "NOT_FOUND").group1 = <<"5">>
    /\ LooseSearch(response.content.text).found
    /\ ValidPair(LoosePair(LooseSearch(response.content.text)))
    /\ ret = <<None, None>>

----------------------------------------------------------------------------
(* Properties of _parse_improvement_response *)

\* one bound under the rule of the claim: the number of its own field, the
\* original for KEEP_CURRENT and for a field that is absent or has no number
BoundOf(field_match, original) ==
    IF field_match.found /\ IsDigit(field_match.group1[1])
    THEN ToFloat(field_match.group1)
    ELSE original

\* the tier named in the text, MEDIUM when there is none
TierOf(confidence_match) ==
    IF confidence_match.found THEN Upper(confidence_match.group1[1]) ELSE "MEDIUM"

\* suggest_clip_improvements has parsed a text of the oracle
ImproveParsed ==
    /\ imp.pc = "returned"
    /\ imp.response.ok
    /\ ~imp.response.content.isNone

\* C17: each bound is resolved on its own: a numeric SUGGESTED_START or
\* SUGGESTED_END gives that number; KEEP_CURRENT, an absent field and an
\* unparsable field give the original value of that bound; confidence is the
\* tier named in the response, MEDIUM when absent; and 'changed' is true
\* exactly when the suggested start or the suggested end differs from the
\* original one.
C17_BoundsResolvedIndependently ==
    ImproveParsed =>
        /\ imp.result.suggested_start =
              BoundOf(FieldSearch(imp.response.content.text,
                                  "SUGGESTED_START:", "KEEP_CURRENT"), imp.start_time)
        /\ imp.result.suggested_end =
              BoundOf(FieldSearch(imp.response.content.text,
                                  "SUGGESTED_END:", "KEEP_CURRENT"), imp.end_time)
        /\ imp.result.confidence = TierOf(ConfidenceSearch(imp.response.content.text))
        /\ imp.result.changed <=>
              \/ imp.result.suggested_start # imp.start_time
              \/ imp.result.suggested_end # imp.end_time

\* C17 witness: the start is a new number, the end is KEEP_CURRENT, no tier is
\* named: the start changes, the end stays, the confidence is MEDIUM
C17_Witness ==
    /\ ImproveParsed
    /\ imp.response.content.text =
          <<"SUGGESTED_START:", " ", "4", ".", "5",
            "\n", "SUGGESTED_END:", " ", "KEEP_CURRENT">>
    /\ imp.start_time = Float(5, 0)
    /\ imp.result.suggested_start = Float(45, 1)
    /\ imp.result.suggested_end = imp.end_time
    /\ imp.result.confidence = "MEDIUM"
    /\ imp.result.changed

----------------------------------------------------------------------------
(* Properties of the order of tied suggestions *)

\* the place of a category in the iteration order of the configuration
CategoryIndex(category) ==
    CHOOSE n \in 1..Len(categories) : categories[n].category = category

\* C18 as stated: among the entries get_category_suggestions returns, entries
\* with equal confidence stand in the iteration order of the configured
\* categories, also when one of them was scored by the description only and
\* the other by the content only.
C18_TiesInCategoryOrder ==
    Returned("get_category_suggestions") =>
        \A i \in 1..Len(cls.result), j \in 1..Len(cls.result) :
            (i < j /\ cls.result[i].confidence = cls.result[j].confidence) =>
                CategoryIndex(cls.result[i].category) < CategoryIndex(cls.result[j].category)

----------------------------------------------------------------------------
(* Properties of the course of find_clip_timestamps *)

\* the three ways the call can end
Resolved == pc = "returned" /\ exc = "" /\ ValidPair(ret)

NotFound == pc = "returned" /\ exc = "" /\ NotFoundPair(ret)

Failed == pc = "raised" /\ exc = "ClipExtractionError" /\ NotFoundPair(ret)

\* the oracle was queried once the call is past its query, and never twice
OneQuery ==
    /\ pc \in {"start", "prepared"} => queries = 0
    /\ pc \in {"queried", "parsed", "returned", "raised"} => queries = 1

\* a call that is over has exactly one of the three outcomes
OneOutcome ==
    pc \in {"returned", "raised"} =>
        /\ Resolved \/ NotFound \/ Failed
        /\ ~(Resolved /\ NotFound)

\* the steps follow each other as prepare, query, parse and validate, return;
\* only a failed query leaves this course, to raise ClipExtractionError
InOrder ==
    pc' # pc =>
        <<pc, pc'>> \in {<<"start", "prepared">>, <<"prepared", "queried">>,
                         <<"prepared", "raised">>, <<"queried", "parsed">>,
                         <<"parsed", "returned">>}

\* C19: every call of find_clip_timestamps takes the steps prepare, query,
\* parse, validate in that order, issues exactly one oracle query (none after
\* a parse failure), and ends in exactly one of a resolved pair, (None, None)
\* and ClipExtractionError: a failed query raises at once, and a call whose
\* query was answered goes on to its end.
C19_OneQueryInOrder ==
    /\ [](OneQuery /\ OneOutcome)
    /\ [][InOrder]_vars
    /\ (pc = "queried") ~> (pc \in {"returned", "raised"})

\* C19 witness: a response without timestamps ended the call with
\* (None, None) after a single query
C19_Witness ==
    /\ NotFound
    /\ queries = 1
    /\ response.content = Content(<<"START_TIME:", " ", "x">>)
    /\ timestamps = <<None, None>>

----------------------------------------------------------------------------
(* Properties of the order of the steps in process_video_to_clip *)

\* the five steps of the pipeline, in the order of the claim
PipelineOrder ==
    <<"download", "transcribe", "find_clip_timestamps", "classify_combined", "create_clip">>

IsPipelineStep(call) == \E i \in 1..Len(PipelineOrder) : PipelineOrder[i] = call.step

\* the steps that have run so far, without the two input validations
StepsRun == SelectSeq(pipe.calls, IsPipelineStep)

\* the clip finder returned, and returned no timestamps
NoTimestamps(call) ==
    /\ call.step = "find_clip_timestamps"
    /\ call.raised = ""
    /\ (IsNone(call.value[1]) \/ IsNone(call.value[2]))

\* the step did what the next step needs
StepSucceeded(call) ==
    /\ call.raised = ""
    /\ CASE call.step = "download" -> call.value # ""
         [] call.step = "find_clip_timestamps" -> ~NoTimestamps(call)
         [] call.step = "create_clip" -> call.value
         [] OTHER -> TRUE

\* C20: the steps download, transcribe, find_clip_timestamps, classify_combined
\* and create_clip run in that order, each at most once and only after every
\* earlier one succeeded; when the clip finder returns no timestamps the
\* pipeline has raised ClipExtractionError and has neither classified nor
\* created a clip
C20_StepsOnlyAfterSuccess ==
    \E run \in {StepsRun} :
        /\ Len(run) <= Len(PipelineOrder)
        /\ \A i \in 1..Len(run) :
              /\ run[i].step = PipelineOrder[i]
              /\ i < Len(run) => StepSucceeded(run[i])
              /\ NoTimestamps(run[i]) =>
                    /\ i = Len(run)
                    /\ pipe.pc = "raised"
                    /\ pipe.exc = "ClipExtractionError"
                    /\ pipe.result.topic = ""
                    /\ pipe.result.clip_path = ""
                    /\ ~pipe.result.success
        /\ pipe.pc = "returned" => Len(run) = Len(PipelineOrder) /\ StepSucceeded(run[Len(run)])

\* the video was downloaded and transcribed, the clip finder answered
\* (None, None), and the pipeline raised
C20_Witness ==
    /\ pipe.pc = "raised"
    /\ pipe.exc = "ClipExtractionError"
    /\ Len(StepsRun) = 3
    /\ NoTimestamps(StepsRun[3])
    /\ pipe.result.error = "Could not identify clip timestamps"

----------------------------------------------------------------------------
(* Properties of the keyword weights *)

\* the keyword has more than one word
IsPhrase(keyword) == \E i \in 1..Len(keyword) : keyword[i] = " "

IsSpecificTerm(keyword) ==
    keyword \in {kw.federal_reserve, kw.interest_rate, kw.cpi, kw.gdp, kw.unemployment_rate}

\* the weight the keyword must have
WeightFormula(keyword) ==
    CASE IsPhrase(keyword) /\ IsSpecificTerm(keyword) -> <<3, 1>>
      [] IsPhrase(keyword) /\ ~IsSpecificTerm(keyword) -> <<3, 2>>
      [] ~IsPhrase(keyword) /\ IsSpecificTerm(keyword) -> <<2, 1>>
      [] OTHER -> <<1, 1>>

\* C21: the weight table of a constructed classifier has one entry for every
\* configured category but 'general', holding for every keyword of the
\* category 1.0, times 1.5 for a keyword of more than one word, times 2.0 for
\* one of the specific terms
C21_WeightsByWordsAndTerms ==
    cls.pc = "constructed" =>
        /\ "general" \notin DOMAIN cls.category_weights
        /\ \A i \in 1..Len(cls.config) :
              cls.config[i].category # "general" =>
                 /\ cls.config[i].category \in DOMAIN cls.category_weights
                 /\ \E w \in {cls.category_weights[cls.config[i].category]} :
                       /\ DOMAIN w = {cls.config[i].keywords[n] :
                                         n \in 1..Len(cls.config[i].keywords)}
                       /\ \A keyword \in DOMAIN w : w[keyword] = WeightFormula(keyword)

\* a classifier constructed with a plain keyword, a phrase, a specific term
\* and a specific phrase, and with a keyword under 'general'
C21_Witness ==
    /\ cls.pc = "constructed"
    /\ cls.config[1].keywords = <<kw.stocks, stock_market>>
    /\ cls.config[2].keywords = <<kw.cpi, kw.federal_reserve>>
    /\ cls.config[3].keywords = <<kw.stocks>>
    /\ cls.category_weights["inflation"][stock_market] = <<3, 2>>
    /\ cls.category_weights["fed"][kw.federal_reserve] = <<3, 1>>

----------------------------------------------------------------------------
(* Properties of classify_by_description *)

\* the keyword occurs in the text
OccursIn(keyword, text) ==
    \E i \in 1..Len(text), j \in 1..Len(text) : SubSeq(text, i, j) = keyword

\* the sum of the weights of the keywords of a set
RECURSIVE SumOfWeights(_)
SumOfWeights(keywords) ==
    IF keywords = {} THEN Zero
    ELSE LET keyword == CHOOSE k \in keywords : TRUE
         IN  RAdd(WeightFormula(keyword), SumOfWeights(keywords \ {keyword}))

\* the score the claim gives category i for the lower-cased text
ScoreFormula(i, text) ==
    SumOfWeights({categories[i].keywords[n] : n \in 1..Len(categories[i].keywords)}
                 \cap {k \in UNION {{categories[c].keywords[n] :
                                        n \in 1..Len(categories[c].keywords)} :
                                    c \in 1..Len(categories)} : OccursIn(k, text)})

NonGeneral == {i \in 1..Len(categories) : categories[i].category # "general"}

\* r is what the claim says of classify_by_description for the text
DescriptionFormula(r, text) ==
    /\ r.primary_category = "general" <=> \A i \in NonGeneral : ScoreFormula(i, text) = Zero
    /\ r.primary_category = "general" => r.confidence_score = Zero
    /\ r.primary_category # "general" =>
          \E i \in NonGeneral :
             /\ categories[i].category = r.primary_category
             /\ \A j \in NonGeneral : ~RLt(ScoreFormula(i, text), ScoreFormula(j, text))
             /\ r.confidence_score =
                   IF RLt(One, RMul(ScoreFormula(i, text), <<1, 5>>)) THEN One
                   ELSE RMul(ScoreFormula(i, text), <<1, 5>>)
    /\ \A n \in 1..Len(r.all_scores) :
          \E i \in NonGeneral :
             /\ categories[i].category = r.all_scores[n].category
             /\ r.all_scores[n].score = ScoreFormula(i, text)

\* C22: classify_by_description scores every category but 'general' with the
\* sum of the weights of its keywords that occur in the lower-cased text,
\* returns a category of maximal score with confidence min(score / 5, 1), and
\* returns 'general' with confidence 0 exactly when no keyword occurs
C22_DescriptionScoredByKeywords ==
    (cls.pc = "returned" /\ cls.op = "classify_by_description") =>
        DescriptionFormula(cls.result, LowerText(cls.description))

\* 'federal reserve interest rate' holds three keywords of fed, of weights 1,
\* 3 and 3: the confidence is cut to 1
C22_Witness ==
    /\ cls.pc = "returned"
    /\ cls.op = "classify_by_description"
    /\ cls.description = kw.federal_reserve \o <<" ">> \o kw.interest_rate
    /\ cls.result.primary_category = "fed"
    /\ cls.result.all_scores[1].score = <<7, 1>>
    /\ cls.result.confidence_score = One

----------------------------------------------------------------------------
(* Properties of the clustering bonus *)

\* the positions in ascending order
Ascending(positions) ==
    CHOOSE s \in [1..Len(positions) -> {positions[i] : i \in 1..Len(positions)}] :
        /\ \A i \in 1..Len(s) - 1 : s[i] <= s[i + 1]
        /\ \A v \in {positions[i] : i \in 1..Len(positions)} :
              Cardinality({i \in 1..Len(s) : s[i] = v})
                 = Cardinality({i \in 1..Len(positions) : positions[i] = v})

\* (100 - distance) / 100 within 100 characters, 0 beyond
BonusFormula(distance) == IF distance <= 100 THEN Rat(100 - distance, 100) ELSE Zero

RECURSIVE SumOfBonuses(_, _)
SumOfBonuses(s, i) ==
    IF i > Len(s) THEN Zero
    ELSE RAdd(BonusFormula(s[i] - s[i - 1]), SumOfBonuses(s, i + 1))

\* the distances between two of the positions
Distances(positions) ==
    {positions[i] - positions[j] : i \in 1..Len(positions), j \in 1..Len(positions)}
    \cap Nat

\* C23: the clustering bonus is the sum over the adjacent pairs of the sorted
\* positions of (100 - distance) / 100 for a distance of at most 100 and of 0
\* beyond; what a pair contributes does not grow with its distance and is 0
\* from distance 100 on; fewer than two positions give 0
C23_BonusOfAdjacentPairs ==
    cls.pc = "bonus_returned" =>
        /\ cls.bonus = SumOfBonuses(Ascending(cls.positions), 2)
        /\ Len(cls.positions) < 2 => cls.bonus = Zero
        /\ \A d \in Distances(cls.positions), e \in Distances(cls.positions) :
              /\ d <= e => ~RLt(PairBonus(d), PairBonus(e))
              /\ d >= 100 => PairBonus(d) = Zero
              /\ PairBonus(d) = BonusFormula(d)

\* unsorted positions with a pair at distance 100, which adds nothing, and a
\* pair at distance 1
C23_Witness ==
    /\ cls.pc = "bonus_returned"
    /\ cls.positions = <<101, 0, 100>>
    /\ cls.bonus = <<99, 100>>

----------------------------------------------------------------------------
(* Properties of the cut of a long transcription *)

\* part_size and middle_start of the claim for the call under way
PartSize == prep.MAX_TRANSCRIPTION_LENGTH \div 3

MiddleStart == Len(prep.transcription) \div 2 - PartSize \div 2

\* the three segments of the claim: the first p characters, p characters from
\* middle_start on, the last p characters
HeadSegment == SubSeq(prep.transcription, 1, PartSize)

MiddleSegment == SubSeq(prep.transcription, MiddleStart + 1, MiddleStart + PartSize)

TailSegment ==
    SubSeq(prep.transcription, Len(prep.transcription) - PartSize + 1, Len(prep.transcription))

\* C24: a transcription longer than the configured maximum M is replaced by
\* its first p = M div 3 characters, the middle marker, the p characters from
\* len div 2 - p div 2 on, the end marker and its last p characters; a
\* transcription of at most M characters is not cut
C24_ThreeEqualSegments ==
    prep.pc = "returned" =>
        IF Len(prep.transcription) > prep.MAX_TRANSCRIPTION_LENGTH
        THEN prep.truncated =
                HeadSegment \o MiddleMarker \o MiddleSegment \o EndMarker \o TailSegment
        ELSE prep.truncated = prep.transcription

----------------------------------------------------------------------------
(* Properties of the ranges kept by the cut *)

\* the characters of the transcription in the text after the cut, in the
\* order of the text
KeptCharacters ==
    SelectSeq(prep.truncated,
              LAMBDA c : c \notin {"\n", "[... MIDDLE SECTION ...]", "[... END SECTION ...]"})

\* where a character stands in a transcription of distinct letters
PositionOf(c) == CHOOSE i \in 1..Len(prep.transcription) : prep.transcription[i] = c

\* the transcription is made of letters that are all different
DistinctLetters ==
    \A i \in 1..Len(prep.transcription) :
        /\ prep.transcription[i] \notin {" ", "\n"}
        /\ \A j \in 1..Len(prep.transcription) :
              prep.transcription[i] = prep.transcription[j] => i = j

\* a transcription longer than a configured maximum of at least 3 was cut
CutOfLong ==
    /\ prep.pc = "returned"
    /\ prep.MAX_TRANSCRIPTION_LENGTH >= 3
    /\ Len(prep.transcription) > prep.MAX_TRANSCRIPTION_LENGTH

\* C29: when a transcription of length L longer than the maximum M >= 3 is
\* cut, p <= middle_start and middle_start + p <= L - p for p = M div 3 and
\* middle_start = L div 2 - p div 2: the head, the middle and the tail are kept
\* in the order of the transcription and no character is kept twice
C29_SegmentsDoNotOverlap ==
    CutOfLong =>
        /\ PartSize <= MiddleStart
        /\ MiddleStart + PartSize <= Len(prep.transcription) - PartSize
        /\ DistinctLetters =>
              /\ Len(KeptCharacters) = 3 * PartSize
              /\ \A i \in 1..Len(KeptCharacters), j \in 1..Len(KeptCharacters) :
                    i < j => PositionOf(KeptCharacters[i]) < PositionOf(KeptCharacters[j])

\* 7 distinct letters under a maximum of 6: the head ab, the middle cd and the
\* tail fg touch but do not overlap
C29_Witness ==
    /\ CutOfLong
    /\ prep.transcription = <<"a", "b", "c", "d", "e", "f", "g">>
    /\ prep.MAX_TRANSCRIPTION_LENGTH = 6
    /\ KeptCharacters = <<"a", "b", "c", "d", "f", "g">>

----------------------------------------------------------------------------
(* Properties of the tables of the classifier *)

\* the operations of the classifier
ClassifierOperations ==
    {"classify_by_description", "classify_by_content", "classify_combined",
     "get_category_suggestions", "validate_classification", "get_category_info"}

----------------------------------------------------------------------------
(* Properties of the durations in find_multiple_clips *)

\* C26: every item of the list of find_multiple_clips with success = true has
\* a duration, which is end_time - start_time, also when start_time is 0
C26_SuccessHasDuration ==
    \A n \in 1..Len(results) :
        results[n].success =>
            /\ ~IsNone(results[n].duration)
            /\ results[n].duration = FloatSub(results[n].end_time, results[n].start_time)

----------------------------------------------------------------------------
(* Properties of the order of the refined boundaries *)

\* C27: for an original pair with end > start, whatever the oracle answers,
\* the dictionary of suggest_clip_improvements has
\* suggested_end > suggested_start
C27_RefinementKeepsOrder ==
    (imp.pc = "returned" /\ FloatLt(imp.start_time, imp.end_time)) =>
        FloatLt(imp.result.suggested_start, imp.result.suggested_end)

----------------------------------------------------------------------------
(* Properties of the category 'general' in classify_combined *)

\* C28: classify_combined returns 'general' exactly when classify_by_description
\* and classify_by_content both returned 'general', then with confidence 0;
\* when the two disagree the primary category is not 'general'
C28_GeneralOnlyWhenBothGeneral ==
    Returned("classify_combined") =>
        /\ cls.result.primary_category = "general" <=>
              /\ cls.result.description_result.primary_category = "general"
              /\ cls.result.content_result.primary_category = "general"
        /\ cls.result.primary_category = "general" => cls.result.confidence_score = Zero
        /\ cls.result.description_result.primary_category
              # cls.result.content_result.primary_category =>
                 cls.result.primary_category # "general"

\* the description names the Federal Reserve and the content holds no keyword:
\* the two disagree and 'fed' is chosen
C28_Witness ==
    /\ Returned("classify_combined")
    /\ cls.description = kw.federal_reserve
    /\ cls.result.description_result.primary_category = "fed"
    /\ cls.result.content_result.primary_category = "general"
    /\ cls.result.primary_category = "fed"

----------------------------------------------------------------------------
(* The downloaded file is cleaned up (main.py, lines 228-233 and 245-260) *)

\* the download step returned a path
DownloadSucceeded == \E i \in 1..Len(pipe.calls) :
    pipe.calls[i].step = "download" /\ StepSucceeded(pipe.calls[i])

PipelineEnded == pipe.pc \in {"returned", "raised"}

\* the exception that the outcome of a call makes the pipeline raise: the one
\* the call raised, or the one the pipeline raises for what the call returned,
\* or none
RaisedBy(call) ==
    IF call.raised # "" THEN call.raised
    ELSE IF StepSucceeded(call) THEN ""
    ELSE IF call.step = "download" THEN "VideoDownloadError"
    ELSE "ClipExtractionError"

\* C30: whenever process_video_to_clip has ended after the download step
\* succeeded, by returning success or by raising from a later step, the removal
\* of the downloaded file has been attempted, and the file does not exist any
\* more when the removal succeeded; the outcome is the one that the last call
\* determines, success after create_clip succeeded and else the exception of
\* the failing step, whether the removal succeeded or failed
C30_DownloadedFileCleanedUp ==
    (PipelineEnded /\ DownloadSucceeded) =>
        LET last == pipe.calls[Len(pipe.calls)]
        IN  /\ pipe.unlink \in {"removed", "failed"}
            /\ pipe.unlink = "removed" => ~pipe.file_exists
            /\ IF last.step = "create_clip" /\ StepSucceeded(last)
               THEN /\ pipe.pc = "returned"
                    /\ pipe.result.success
                    /\ pipe.result.error = ""
                    /\ pipe.exc = ""
               ELSE /\ pipe.pc = "raised"
                    /\ ~pipe.result.success
                    /\ pipe.exc = RaisedBy(last)
                    /\ pipe.exc # ""

\* the transcription raised after the download, the removal of the file
\* failed, and the pipeline raised the TranscriptionError
C30_Witness ==
    /\ pipe.pc = "raised"
    /\ DownloadSucceeded
    /\ pipe.unlink = "failed"
    /\ pipe.file_exists
    /\ pipe.exc = "TranscriptionError"

----------------------------------------------------------------------------
(* Specifications *)

\* one call of find_clip_timestamps
SpecFindClip == InitFindClip /\ [][NextFindClip]_vars

\* one call of find_clip_timestamps whose own steps are not left undone; the
\* oracle call is blocking, with no timeout, and nothing is assumed of it
SpecFindClipRuns ==
    /\ InitFindClip /\ [][NextFindClip]_vars
    /\ WF_vars(Prepare) /\ WF_vars(Parse) /\ WF_vars(Return)

\* one call of find_multiple_clips
SpecBatch == InitBatch /\ [][NextBatch]_vars

SpecImprove == InitImprove /\ [][NextImprove]_vars

SpecClassifier == InitClassifier /\ [][NextClassifier]_vars

\* one call of extract_key_topics
SpecTopics == InitTopics /\ [][NextTopics]_vars

\* the construction of a classifier
SpecConstruct == InitConstruct /\ [][NextConstruct]_vars

\* one call of _calculate_clustering_bonus
SpecClustering == InitClustering /\ [][NextClustering]_vars

\* one call of _prepare_transcription_for_analysis
SpecPrepare == InitPrepare /\ [][NextPrepare]_vars

\* one call of process_video_to_clip
SpecPipeline == InitPipeline /\ [][NextPipeline]_vars

====
